---------------------------- MODULE Spec2Model ----------------------------
(***************************************************************************)
(* A model of the Classical Fixes plugin (src/classical_fixes.py): the     *)
(* artist lookup table and its file artists.csv, the menu actions that add *)
(* artists to it, the per-file reconciliation fixFile, the batch guard     *)
(* ProcessListOfFiles, the renumbering RenumberFiles and the disc merge    *)
(* CombineDiscs.                                                           *)
(*                                                                         *)
(* Strings are sequences of characters; a character is a one-symbol TLA+   *)
(* string ("a", " ", "[").  Two characters that ASCII cannot spell are     *)
(* written as tokens: "o_uml" is the precomposed o-diaeresis and "uml" the *)
(* combining diaeresis U+0308.  "Sigma", "sigma" and "fsigma" are the Greek *)
(* capital sigma, small sigma and small final sigma.                       *)
(*                                                                         *)
(* A metadata store (the host's Metadata object) is a function from tag    *)
(* name to a list of strings; a tag that is absent holds the empty list.   *)
(***************************************************************************)
EXTENDS Integers, Sequences, FiniteSets, TLC

(***************************************************************************)
(* Characters                                                              *)
(***************************************************************************)
UpperCase ==
  <<"A","B","C","D","E","F","G","H","I","J","K","L","M",
    "N","O","P","Q","R","S","T","U","V","W","X","Y","Z">>

LowerCase ==
  <<"a","b","c","d","e","f","g","h","i","j","k","l","m",
    "n","o","p","q","r","s","t","u","v","w","x","y","z">>

UpperSet == {UpperCase[i] : i \in DOMAIN UpperCase}

LowerSet == {LowerCase[i] : i \in DOMAIN LowerCase}

Digits == {"0","1","2","3","4","5","6","7","8","9"}

\* str.strip() and \s: the whitespace characters
Whitespace == {" ", "\t", "\n"}

\* \w of the re module on str patterns: alphanumerics and the underscore
WordChars == UpperSet \cup LowerSet \cup Digits \cup {"_", "o_uml", "Sigma", "sigma", "fsigma"}

ToLower == [c \in UpperSet |-> LowerCase[CHOOSE i \in DOMAIN UpperCase : UpperCase[i] = c]]

ToUpper == [c \in LowerSet |-> UpperCase[CHOOSE i \in DOMAIN LowerCase : LowerCase[i] = c]]

\* str.lower() on one character
LowerChar(c) == IF c \in UpperSet THEN ToLower[c] ELSE c

\* both cases of a character (a literal under re.IGNORECASE)
BothCases(c) ==
  IF c \in UpperSet THEN {c, ToLower[c]}
  ELSE IF c \in LowerSet THEN {c, ToUpper[c]}
  ELSE {c}

(***************************************************************************)
(* Python string operations                                                *)
(***************************************************************************)
\* the characters with a case, and those str.lower() looks through when it
\* decides whether a capital sigma ends a word
Cased == UpperSet \cup LowerSet \cup {"o_uml", "Sigma", "sigma", "fsigma"}

CaseIgnorable == {"'", ".", ":", "uml"}

\* the nearest position before p (dir = -1) or after p (dir = 1) of s holding a
\* character that is not case-ignorable; 0 or Len(s) + 1 if there is none
RECURSIVE NextCased(_, _, _)
NextCased(s, p, dir) ==
  IF p + dir < 1 \/ p + dir > Len(s) THEN p + dir
  ELSE IF s[p + dir] \in CaseIgnorable THEN NextCased(s, p + dir, dir) ELSE p + dir

\* the capital sigma at position p of s follows a cased letter and none follows it
FinalSigma(s, p) ==
  /\ NextCased(s, p, -1) >= 1
  /\ s[NextCased(s, p, -1)] \in Cased
  /\ (NextCased(s, p, 1) > Len(s) \/ s[NextCased(s, p, 1)] \notin Cased)

\* s.lower(): a capital sigma becomes the final sigma at the end of a word
lower(s) ==
  [i \in 1..Len(s) |->
     IF s[i] = "Sigma" THEN (IF FinalSigma(s, i) THEN "fsigma" ELSE "sigma")
     ELSE LowerChar(s[i])]

\* s[a..b] (1-based, inclusive; empty when b < a)
Slice(s, a, b) == IF b < a THEN <<>> ELSE SubSeq(s, a, b)

\* the first position >= p of s holding a character outside cs (Len(s)+1 if none)
RECURSIVE SkipIn(_, _, _)
SkipIn(s, cs, p) ==
  IF p > Len(s) THEN p
  ELSE IF s[p] \in cs THEN SkipIn(s, cs, p + 1) ELSE p

\* the last position <= p of s holding a character outside cs (0 if none)
RECURSIVE SkipBack(_, _, _)
SkipBack(s, cs, p) ==
  IF p < 1 THEN 0
  ELSE IF s[p] \in cs THEN SkipBack(s, cs, p - 1) ELSE p

\* s.strip(chars)
stripChars(s, cs) == Slice(s, SkipIn(s, cs, 1), SkipBack(s, cs, Len(s)))

\* s.strip()
strip(s) == stripChars(s, Whitespace)

\* the first position >= p of s holding character c (Len(s)+1 if none)
RECURSIVE FindChar(_, _, _)
FindChar(s, c, p) ==
  IF p > Len(s) THEN p
  ELSE IF s[p] = c THEN p ELSE FindChar(s, c, p + 1)

\* s.split(c) for a one-character separator: empty pieces are kept
RECURSIVE SplitFrom(_, _, _)
SplitFrom(s, c, p) ==
  LET q == FindChar(s, c, p)
  IN  IF q > Len(s) THEN << Slice(s, p, Len(s)) >>
      ELSE << Slice(s, p, q - 1) >> \o SplitFrom(s, c, q + 1)

split(s, c) == SplitFrom(s, c, 1)

\* the first position >= p of s holding a character of cs (Len(s)+1 if none)
RECURSIVE SkipTo(_, _, _)
SkipTo(s, cs, p) ==
  IF p > Len(s) THEN p
  ELSE IF s[p] \in cs THEN p ELSE SkipTo(s, cs, p + 1)

\* s.split(): pieces between runs of whitespace, no empty pieces
RECURSIVE SplitWsFrom(_, _)
SplitWsFrom(s, p) ==
  LET a == SkipIn(s, Whitespace, p)
  IN  IF a > Len(s) THEN <<>>
      ELSE LET b == SkipTo(s, Whitespace, a)
           IN  << Slice(s, a, b - 1) >> \o SplitWsFrom(s, b)

splitWs(s) == SplitWsFrom(s, 1)

\* sep.join(parts)
RECURSIVE join(_, _)
join(parts, sep) ==
  IF parts = <<>> THEN <<>>
  ELSE IF Len(parts) = 1 THEN parts[1]
  ELSE parts[1] \o sep \o join(Tail(parts), sep)

\* the concatenation of a list of strings
RECURSIVE concat(_)
concat(parts) == IF parts = <<>> THEN <<>> ELSE parts[1] \o concat(Tail(parts))

\* [f(x) for x in xs]
MapSeq(f(_), xs) == [i \in 1..Len(xs) |-> f(xs[i])]

\* [x for x in xs if keep(x)]
RECURSIVE FilterSeq(_, _)
FilterSeq(keep(_), xs) ==
  IF xs = <<>> THEN <<>>
  ELSE (IF keep(xs[1]) THEN << xs[1] >> ELSE <<>>) \o FilterSeq(keep, Tail(xs))

(***************************************************************************)
(* Key normalisation, name transforms and similarity                       *)
(***************************************************************************)
\* unicodedata.normalize('NFD', c) for one character
NFD(c) == IF c = "o_uml" THEN <<"o", "uml">> ELSE << c >>

\* unicodedata.category(c) == 'Mn': the combining marks
CombiningMarks == {"uml"}

\* the characters makeKey replaces by nothing
KeyStripped == {"-", " ", "/", ".", "'", ","}

makeKey(inputstring) ==
  LET decomposed == concat([i \in 1..Len(inputstring) |-> NFD(inputstring[i])])
      NotMark(c) == c \notin CombiningMarks
      NotStripped(c) == c \notin KeyStripped
      stripped == FilterSeq(NotStripped, FilterSeq(NotMark, decomposed))
  IN  lower(stripped)

COMMON_SUFFIXES ==
  { <<"j","r">>, <<"s","r">>, <<"j","r",".">>, <<"s","r",".">>, <<"i">>, <<"i","i">>,
    <<"i","i","i">>, <<"i","v">>, <<"v">>, <<"v","i">>, <<"v","i","i">>,
    <<"v","i","i","i">>, <<"i","x">>, <<"x">>, <<"x","i">> }

reverseName(inputString) ==
  LET nameOut == strip(inputString)
      nameParts == split(nameOut, " ")
      n == Len(nameParts)
  IN  IF n > 1
      THEN IF lower(nameParts[n]) \in COMMON_SUFFIXES
           THEN IF n > 2
                THEN nameParts[n - 1] \o <<",", " ">>
                       \o join(SubSeq(nameParts, 1, n - 2), <<" ">>)
                       \o <<" ">> \o nameParts[n]
                ELSE nameOut
           ELSE nameParts[n] \o <<",", " ">> \o join(SubSeq(nameParts, 1, n - 1), <<" ">>)
      ELSE nameOut

\* getLastName raises IndexError when reverseName(s).split() is empty
getLastNameRaises(inputString) == splitWs(reverseName(inputString)) = <<>>

getLastName(inputString) ==
  IF getLastNameRaises(inputString) THEN <<>> ELSE splitWs(reverseName(inputString))[1]

\* the given-name parts whose first character getInitialsName takes
InitialParts(inputString) ==
  LET nameParts == split(strip(inputString), " ")
      n == Len(nameParts)
  IN  IF n > 1
      THEN IF lower(nameParts[n]) \in COMMON_SUFFIXES
           THEN IF n > 2 THEN SubSeq(nameParts, 1, n - 2) ELSE <<>>
           ELSE SubSeq(nameParts, 1, n - 1)
      ELSE << strip(inputString) >>

\* getInitialsName raises IndexError on str(s)[0] of an empty part
getInitialsNameRaises(inputString) ==
  \E i \in DOMAIN InitialParts(inputString) : InitialParts(inputString)[i] = <<>>

getInitialsName(inputString) ==
  LET nameOut == strip(inputString)
      nameParts == split(nameOut, " ")
      n == Len(nameParts)
      First(s) == << s[1] >>
  IN  IF getInitialsNameRaises(inputString) THEN <<>>
      ELSE IF n > 1
      THEN IF lower(nameParts[n]) \in COMMON_SUFFIXES
           THEN IF n > 2
                THEN lower(concat(MapSeq(First, SubSeq(nameParts, 1, n - 2)))
                             \o nameParts[n - 1] \o nameParts[n])
                ELSE lower(nameOut)
           ELSE lower(concat(MapSeq(First, SubSeq(nameParts, 1, n - 1))) \o nameParts[n])
      ELSE lower(<< nameOut[1] >>)

\* the largest / smallest member of a non-empty set of integers
MaxOf(S) == CHOOSE x \in S : \A y \in S : y <= x

MinOf(S) == CHOOSE x \in S : \A y \in S : x <= y

\* the length of the common run of a from i and b from j, inside a[..ahi], b[..bhi]
RECURSIVE RunLen(_, _, _, _, _, _)
RunLen(a, b, i, j, ahi, bhi) ==
  IF i > ahi \/ j > bhi THEN 0
  ELSE IF a[i] # b[j] THEN 0
  ELSE 1 + RunLen(a, b, i + 1, j + 1, ahi, bhi)

\* difflib.SequenceMatcher: the total size of the matching blocks of
\* a[alo..ahi] and b[blo..bhi] (find_longest_match, then both sides of it)
RECURSIVE MatchingSize(_, _, _, _, _, _)
MatchingSize(a, b, alo, ahi, blo, bhi) ==
  IF alo > ahi \/ blo > bhi THEN 0
  ELSE
    LET k == MaxOf({RunLen(a, b, i, j, ahi, bhi) : i \in alo..ahi, j \in blo..bhi})
    IN  IF k = 0 THEN 0
        ELSE
          LET besti == MinOf({i \in alo..ahi :
                                \E j \in blo..bhi : RunLen(a, b, i, j, ahi, bhi) = k})
              bestj == MinOf({j \in blo..bhi : RunLen(a, b, besti, j, ahi, bhi) = k})
          IN  k + MatchingSize(a, b, alo, besti - 1, blo, bestj - 1)
                + MatchingSize(a, b, besti + k, ahi, bestj + k, bhi)

\* the threshold of AreSimilar, in hundredths
SIMILARITY_PCT == 85

\* SequenceMatcher(None, str1, str2).ratio() > .85, ratio = 2.0 * M / T (1.0 if T = 0)
AreSimilar(str1, str2) ==
  LET T == Len(str1) + Len(str2)
      M == MatchingSize(str1, str2, 1, Len(str1), 1, Len(str2))
  IN  IF T = 0 THEN TRUE ELSE 200 * M > SIMILARITY_PCT * T

(***************************************************************************)
(* Regular expressions (the re module), for the patterns the plugin uses:  *)
(* a pattern is a sequence of character classes, each with a repetition    *)
(* range and the number of the group it belongs to (0: none), optionally   *)
(* between \b assertions.  Matching is greedy with backtracking.           *)
(***************************************************************************)
\* one character of the class cs
One(cs) == [set |-> cs, neg |-> FALSE, min |-> 1, max |-> 1, grp |-> 0]

\* [^...]: one character outside cs
NotOf(cs) == [set |-> cs, neg |-> TRUE, min |-> 1, max |-> 1, grp |-> 0]

\* cs?
Opt(cs) == [set |-> cs, neg |-> FALSE, min |-> 0, max |-> 1, grp |-> 0]

\* cs* (max -1: no upper limit)
Star(cs) == [set |-> cs, neg |-> FALSE, min |-> 0, max |-> -1, grp |-> 0]

\* cs{n,}
AtLeast(n, cs) == [set |-> cs, neg |-> FALSE, min |-> n, max |-> -1, grp |-> 0]

\* .* : any characters but a newline
DotStar == [set |-> {"\n"}, neg |-> TRUE, min |-> 0, max |-> -1, grp |-> 0]

\* an element as (part of) capture group g
InGroup(g, e) == [e EXCEPT !.grp = g]

\* [Xx] for every letter of word
AnyCase(word) == [i \in 1..Len(word) |-> One(BothCases(word[i]))]

\* the literal text
Exact(text) == [i \in 1..Len(text) |-> One({text[i]})]

Pattern(wbStart, elems, wbEnd) == [wbStart |-> wbStart, elems |-> elems, wbEnd |-> wbEnd]

ElemMatches(e, c) == (c \in e.set) # e.neg

\* \b before position p of s
WordBoundary(s, p) ==
  LET before == p > 1 /\ p - 1 <= Len(s) /\ s[p - 1] \in WordChars
      after == p >= 1 /\ p <= Len(s) /\ s[p] \in WordChars
  IN  before # after

\* how many characters from position p on match element e, up to limit (-1: no limit)
RECURSIVE RunOf(_, _, _, _)
RunOf(e, s, p, limit) ==
  IF limit = 0 \/ p > Len(s) THEN 0
  ELSE IF ElemMatches(e, s[p])
       THEN 1 + RunOf(e, s, p + 1, IF limit = -1 THEN -1 ELSE limit - 1)
       ELSE 0

NoMatch == << -1 >>

\* the lengths matched by elements k.. of pat from position p, or NoMatch:
\* element k takes as many characters as it can, then fewer (TryCount)
RECURSIVE MatchElems(_, _, _, _)
RECURSIVE TryCount(_, _, _, _, _)
MatchElems(pat, k, s, p) ==
  IF k > Len(pat.elems)
  THEN IF pat.wbEnd /\ ~WordBoundary(s, p) THEN NoMatch ELSE <<>>
  ELSE TryCount(pat, k, s, p, RunOf(pat.elems[k], s, p, pat.elems[k].max))

TryCount(pat, k, s, p, n) ==
  IF n < pat.elems[k].min THEN NoMatch
  ELSE LET rest == MatchElems(pat, k + 1, s, p + n)
       IN  IF rest # NoMatch THEN << n >> \o rest
           ELSE TryCount(pat, k, s, p, n - 1)

\* pattern.match at position p of s: the element lengths, or NoMatch
MatchAt(pat, s, p) ==
  IF pat.wbStart /\ ~WordBoundary(s, p) THEN NoMatch ELSE MatchElems(pat, 1, s, p)

RECURSIVE SumSeq(_)
SumSeq(ns) == IF ns = <<>> THEN 0 ELSE ns[1] + SumSeq(Tail(ns))

\* match.group(g): the text of the elements of group g
GroupText(pat, s, p, lens, g) ==
  LET Piece(k) == IF pat.elems[k].grp = g
                  THEN Slice(s, p + SumSeq(SubSeq(lens, 1, k - 1)),
                                p + SumSeq(SubSeq(lens, 1, k)) - 1)
                  ELSE <<>>
  IN  concat([k \in 1..Len(lens) |-> Piece(k)])

\* pattern.search(s) finds a match
Search(pat, s) == \E p \in 1..(Len(s) + 1) : MatchAt(pat, s, p) # NoMatch

\* re.sub(pattern, repl, s) for a pattern that matches no empty string; repl is
\* a literal text followed, when repl.grp = 1, by group 1
RECURSIVE SubFrom(_, _, _, _)
SubFrom(pat, repl, s, p) ==
  IF p > Len(s) THEN <<>>
  ELSE LET lens == MatchAt(pat, s, p)
       IN  IF lens = NoMatch \/ SumSeq(lens) = 0
           THEN << s[p] >> \o SubFrom(pat, repl, s, p + 1)
           ELSE repl.text
                  \o (IF repl.grp = 1 THEN GroupText(pat, s, p, lens, 1) ELSE <<>>)
                  \o SubFrom(pat, repl, s, p + SumSeq(lens))

reSub(pat, repl, s) == SubFrom(pat, repl, s, 1)

Repl(text, grp) == [text |-> text, grp |-> grp]

Digit1 == InGroup(1, One(Digits))

Spaces == Star({" "})

\* the ordered rule table applied to title and album
regexes == <<
  [pat |-> Pattern(TRUE, AnyCase(<<"n","u","m","b","e","r">>) \o << Spaces, Digit1 >>, FALSE),
   repl |-> Repl(<<"#">>, 1)],
  [pat |-> Pattern(TRUE, AnyCase(<<"n","o">>) \o << Opt({"."}), Spaces, Digit1 >>, FALSE),
   repl |-> Repl(<<"#">>, 1)],
  [pat |-> Pattern(TRUE, AnyCase(<<"n","r">>) \o << Opt({"."}), Spaces, Digit1 >>, FALSE),
   repl |-> Repl(<<"#">>, 1)],
  [pat |-> Pattern(TRUE, AnyCase(<<"n","b","r">>) \o << Opt({"."}), One(Whitespace), Digit1 >>, FALSE),
   repl |-> Repl(<<"#">>, 1)],
  [pat |-> Pattern(TRUE, AnyCase(<<"o","p","u","s">>) \o << Spaces, Digit1 >>, FALSE),
   repl |-> Repl(<<"O","p","."," ">>, 1)],
  [pat |-> Pattern(TRUE, AnyCase(<<"o","p">>) \o << Opt({"."}), Spaces, Digit1 >>, FALSE),
   repl |-> Repl(<<"O","p","."," ">>, 1)],
  [pat |-> Pattern(TRUE, AnyCase(<<"s","y","m">>) \o << One({" ", "|", "."}), Spaces, Digit1 >>, FALSE),
   repl |-> Repl(<<"S","y","m","p","h","o","n","y"," ">>, 1)],
  [pat |-> Pattern(TRUE, AnyCase(<<"s","y","m","p","h","o","n","i","e">>) \o << Spaces, Opt({"#"}), Digit1 >>, FALSE),
   repl |-> Repl(<<"S","y","m","p","h","o","n","y"," ","#">>, 1)],
  [pat |-> Pattern(TRUE, AnyCase(<<"m","i","n">>) \o << One({"."}) >>, FALSE),
   repl |-> Repl(<<"m","i","n",".">>, 0)],
  [pat |-> Pattern(TRUE, AnyCase(<<"m","a","j">>) \o << One({"."}) >>, FALSE),
   repl |-> Repl(<<"M","a","j",".">>, 0)],
  [pat |-> Pattern(TRUE, AnyCase(<<"m","i","n","e","u","r">>), TRUE),
   repl |-> Repl(<<"m","i","n",".">>, 0)],
  [pat |-> Pattern(TRUE, AnyCase(<<"m","a","j","e","u","r">>), TRUE),
   repl |-> Repl(<<"M","a","j",".">>, 0)],
  [pat |-> Pattern(TRUE, AnyCase(<<"m","a","j","e","u","r">>), TRUE),
   repl |-> Repl(<<"M","a","j",".">>, 0)],
  [pat |-> Pattern(TRUE, << One({"B", "b"}), Star({".", " "}), One({"W", "w"}), Star({".", " "}),
                            One({"V", "v"}), Star({".", " ", "#"}), Digit1 >>, FALSE),
   repl |-> Repl(<<"B","W","V"," ">>, 1)],
  [pat |-> Pattern(TRUE, << One({"H", "h"}), Star({".", " "}), One({"W", "w"}), Star({".", " "}),
                            One({"V", "v"}), Star({".", " ", "#"}), Digit1 >>, FALSE),
   repl |-> Repl(<<"H","W","V"," ">>, 1)],
  [pat |-> Pattern(TRUE, << One({"H", "h"}), Opt({" ", "."}), Opt({"O", "o"}), Opt({".", " "}),
                            Opt({"B", "b"}), AtLeast(1, {" ", "."}),
                            InGroup(1, AtLeast(1, {"X", "x", "V", "v", "I", "i"})),
                            InGroup(1, Opt({"A", "a"})) >>, FALSE),
   repl |-> Repl(<<"H","o","b","."," ">>, 1)],
  [pat |-> Pattern(TRUE, << One({"K", "k"}), Star({" ", "."}), Digit1 >>, FALSE),
   repl |-> Repl(<<"K","."," ">>, 1)],
  [pat |-> Pattern(TRUE, AnyCase(<<"a","n","h">>) \o << Star({" ", "."}), Digit1 >>, FALSE),
   repl |-> Repl(<<"A","n","h","."," ">>, 1)],
  [pat |-> Pattern(FALSE, << One({","}), InGroup(1, NotOf({" "})) >>, FALSE),
   repl |-> Repl(<<","," ">>, 1)],
  [pat |-> Pattern(FALSE, << One({" "}), One({":"}) >>, FALSE),
   repl |-> Repl(<<":">>, 0)],
  [pat |-> Pattern(FALSE, << AtLeast(2, Whitespace) >>, FALSE),
   repl |-> Repl(<<" ">>, 0)]
>>

\* (.*)[Dd][Ii][Ss][CcKk][ ]*([0-9]*)
DISC_RE ==
  Pattern(FALSE, << InGroup(1, DotStar), One({"D", "d"}), One({"I", "i"}), One({"S", "s"}),
                    One({"C", "c", "K", "k"}), Spaces, InGroup(2, Star(Digits)) >>, FALSE)

\* [Oo]rchestr|[Oo]rkest|[Pp]hilharmoni|[Cc]onsort|[Ee]nsemb|[Ss]infonia|[Ss]ymphon|[Bb]and
ORCH_RE == {
  Pattern(FALSE, << One({"O", "o"}) >> \o Exact(<<"r","c","h","e","s","t","r">>), FALSE),
  Pattern(FALSE, << One({"O", "o"}) >> \o Exact(<<"r","k","e","s","t">>), FALSE),
  Pattern(FALSE, << One({"P", "p"}) >> \o Exact(<<"h","i","l","h","a","r","m","o","n","i">>), FALSE),
  Pattern(FALSE, << One({"C", "c"}) >> \o Exact(<<"o","n","s","o","r","t">>), FALSE),
  Pattern(FALSE, << One({"E", "e"}) >> \o Exact(<<"n","s","e","m","b">>), FALSE),
  Pattern(FALSE, << One({"S", "s"}) >> \o Exact(<<"i","n","f","o","n","i","a">>), FALSE),
  Pattern(FALSE, << One({"S", "s"}) >> \o Exact(<<"y","m","p","h","o","n">>), FALSE),
  Pattern(FALSE, << One({"B", "b"}) >> \o Exact(<<"a","n","d">>), FALSE) }

\* ([&]|[and]) ([Hh]is Orchestra|Chorus)
AMP_RE == {
  Pattern(FALSE, << One({"&", "a", "n", "d"}), One({" "}), One({"H", "h"}) >>
                   \o Exact(<<"i","s"," ","O","r","c","h","e","s","t","r","a">>), FALSE),
  Pattern(FALSE, << One({"&", "a", "n", "d"}), One({" "}) >> \o Exact(<<"C","h","o","r","u","s">>), FALSE) }

\* a regular expression with alternatives finds a match in s
SearchAny(alternatives, s) == \E pat \in alternatives : Search(pat, s)

(***************************************************************************)
(* The host's metadata store: tag name -> list of values.  Reading a tag   *)
(* gives its values joined by "; " (the empty string when absent); writing *)
(* drops empty values, and a tag left with no value is removed.            *)
(***************************************************************************)
Tags == { "title", "album", "artist", "albumartist", "album artist", "albumArtist",
          "composer", "composer view", "composersort", "epoque", "conductor",
          "orchestra", "genre", "origgenre", "classicalfixesdate", "discnumber",
          "tracknumber", "totaldiscs", "date", "origdiscnumber", "origtracknumber" }

EmptyMetadata == [k \in Tags |-> <<>>]

\* 'k' in metadata
mdHas(md, k) == md[k] # <<>>

\* metadata['k']
mdGet(md, k) == join(md[k], <<";", " ">>)

\* metadata['k'] = values, values a list
mdSetList(md, k, values) ==
  LET NonEmpty(x) == x # <<>>
  IN  [md EXCEPT ![k] = FilterSeq(NonEmpty, values)]

\* metadata['k'] = value, value a string
mdSet(md, k, value) == mdSetList(md, k, << value >>)

\* 'not track.metadata': a store with no tag at all
mdIsEmpty(md) == \A k \in Tags : md[k] = <<>>

\* the decimal digits of a natural number (str(n))
DigitChars == <<"0","1","2","3","4","5","6","7","8","9">>

RECURSIVE IntToStr(_)
IntToStr(n) ==
  IF n < 10 THEN << DigitChars[n + 1] >>
  ELSE IntToStr(n \div 10) \o << DigitChars[(n % 10) + 1] >>

DigitValue(c) == (CHOOSE i \in DOMAIN DigitChars : DigitChars[i] = c) - 1

\* int(s) raises ValueError unless s, stripped, is a non-empty run of digits
IntRaises(s) == strip(s) = <<>> \/ \E i \in DOMAIN strip(s) : strip(s)[i] \notin Digits

RECURSIVE DigitsToInt(_)
DigitsToInt(s) ==
  IF s = <<>> THEN 0 ELSE 10 * DigitsToInt(SubSeq(s, 1, Len(s) - 1)) + DigitValue(s[Len(s)])

\* int(s)
StrToInt(s) == DigitsToInt(strip(s))

expandList(thelist, splitchar) == MapSeq(strip, split(thelist, splitchar))

\* s.split('; ')
RECURSIVE SplitSemiFrom(_, _, _)
SplitSemiFrom(s, p, start) ==
  IF p + 1 > Len(s) THEN << Slice(s, start, Len(s)) >>
  ELSE IF s[p] = ";" /\ s[p + 1] = " "
       THEN << Slice(s, start, p - 1) >> \o SplitSemiFrom(s, p + 2, p + 2)
       ELSE SplitSemiFrom(s, p + 1, start)

splitSemi(s) == SplitSemiFrom(s, 1, 1)

(***************************************************************************)
(* The lookup table: artistLookup is None (loaded = FALSE) when the file   *)
(* could not be read, else a dictionary key -> ArtistLookup record.        *)
(***************************************************************************)
ArtistLookup(key, name, sort, sortwithdate, role, epoque) ==
  [ key |-> strip(key), name |-> strip(name), sortorder |-> strip(sort),
    sortorderwithdates |-> strip(sortwithdate), primaryrole |-> role,
    primaryepoque |-> strip(epoque) ]

NoLookup == [loaded |-> FALSE, table |-> <<>>]

Lookup(table) == [loaded |-> TRUE, table |-> table]

\* artistDict[key] = record
DictPut(table, key, record) ==
  [k \in (DOMAIN table) \cup {key} |-> IF k = key THEN record ELSE table[k]]

\* lines 181-200 inserting under makeKey(name) only where the key is new
upsertArtistKeepingFirst(artistDict, name, sortOrderName, sortOrderNameWithDates, primaryRole, epoque) ==
  [dict |-> IF makeKey(name) \in DOMAIN artistDict THEN artistDict
            ELSE DictPut(artistDict, makeKey(name),
                         ArtistLookup(makeKey(name), name, sortOrderName,
                                      sortOrderNameWithDates, primaryRole, epoque)),
   raised |-> FALSE]

\* lines 181-200 writing the last-name and initials keys without looking at
\* what they hold
upsertArtistOverwriting(artistDict, name, sortOrderName, sortOrderNameWithDates, primaryRole, epoque) ==
  LET Rec(key) == ArtistLookup(key, name, sortOrderName, sortOrderNameWithDates,
                               primaryRole, epoque)
      d1 == DictPut(artistDict, makeKey(name), Rec(makeKey(name)))
      d2 == DictPut(d1, makeKey(getLastName(name)), Rec(makeKey(getLastName(name))))
      d3 == DictPut(d2, makeKey(getInitialsName(name)), Rec(makeKey(getInitialsName(name))))
  IN  IF primaryRole = "Orchestra" THEN [dict |-> d1, raised |-> FALSE]
      ELSE IF getLastNameRaises(name) THEN [dict |-> d1, raised |-> TRUE]
      ELSE IF getInitialsNameRaises(name) THEN [dict |-> d2, raised |-> TRUE]
      ELSE [dict |-> d3, raised |-> FALSE]

\* upsertArtist from its first line to the point where it returns or raises
upsertArtist(artistDict, name, sortOrderName, sortOrderNameWithDates, primaryRole, epoque) ==
  LET Rec(key) == ArtistLookup(key, name, sortOrderName, sortOrderNameWithDates,
                               primaryRole, epoque)
      Free(d, key) == key \notin DOMAIN d \/ (key \in DOMAIN d /\ AreSimilar(d[key].name, name))
      key1 == makeKey(name)
      d1 == DictPut(artistDict, key1, Rec(key1))
      key2 == makeKey(getLastName(name))
      d2 == IF Free(d1, key2) THEN DictPut(d1, key2, Rec(key2)) ELSE d1
      key3 == makeKey(getInitialsName(name))
      d3 == IF Free(d2, key3) THEN DictPut(d2, key3, Rec(key3)) ELSE d2
  IN  IF primaryRole = "Orchestra" THEN [dict |-> d1, raised |-> FALSE]
      ELSE IF getLastNameRaises(name) THEN [dict |-> d1, raised |-> TRUE]
      ELSE IF getInitialsNameRaises(name) THEN [dict |-> d2, raised |-> TRUE]
      ELSE [dict |-> d3, raised |-> FALSE]

(***************************************************************************)
(* artists.csv                                                             *)
(***************************************************************************)
\* artists.csv with the given lines
Stored(lines) == [exists |-> TRUE, lines |-> lines]

\* artists.csv does not exist
Missing == [exists |-> FALSE, lines |-> {}]

\* the role of a record as the text of its field in artists.csv
RoleText ==
  [Composer |-> <<"C","o","m","p","o","s","e","r">>,
   Conductor |-> <<"C","o","n","d","u","c","t","o","r">>,
   Orchestra |-> <<"O","r","c","h","e","s","t","r","a">>]

\* line 240: the line of one record, as artistFile.write(line + '\n') writes it
Line(artist) ==
  join(<< artist.key, artist.name, artist.sortorder, artist.sortorderwithdates,
          RoleText[artist.primaryrole], artist.primaryepoque >>, <<"|">>) \o <<"\n">>

\* lines 235-245: the file saveArtists leaves. The file is opened for writing
\* before artistDict.items() is read, so it is left empty when artistDict is
\* None. The lines are kept as a set: no two records of a table share a key.
saveArtists(lookup) ==
  Stored(IF lookup.loaded THEN {Line(lookup.table[key]) : key \in DOMAIN lookup.table} ELSE {})

\* lines 222-226: the record of one line, for a line with more than five parts
Parsed(artistline) ==
  [key |-> strip(split(artistline, "|")[1]),
   name |-> strip(split(artistline, "|")[2]),
   sortorder |-> strip(split(artistline, "|")[3]),
   sortorderwithdates |-> strip(split(artistline, "|")[4]),
   primaryrole |-> CHOOSE role \in DOMAIN RoleText :
                     RoleText[role] = strip(split(artistline, "|")[5]),
   primaryepoque |-> strip(split(artistline, "|")[6])]

\* the lines readArtists turns into records
Readable(lines) == {artistline \in lines : Len(split(artistline, "|")) > 5}

\* lines 203-232: the table readArtists returns, None for a missing file
readArtists(file) ==
  IF ~file.exists THEN NoLookup
  ELSE Lookup([key \in {Parsed(artistline).key : artistline \in Readable(file.lines)} |->
                 Parsed(CHOOSE artistline \in Readable(file.lines) :
                          Parsed(artistline).key = key)])

\* the file from which readArtists gave the table at line 299
StoreOf(lookup) == IF lookup.loaded THEN saveArtists(lookup) ELSE Missing

(***************************************************************************)
(* fixFile.  A frame holds the file's metadata, the two working lists and  *)
(* whether an exception has been raised; every step leaves a frame that    *)
(* has raised as it is (the except clause of fixFile keeps what was        *)
(* written before the exception).                                          *)
(***************************************************************************)
Frame(md, trackArtists, trackAlbumArtists, raised) ==
  [md |-> md, trackArtists |-> trackArtists, trackAlbumArtists |-> trackAlbumArtists,
   raised |-> raised]

Raise(f) == [f EXCEPT !.raised = TRUE]

WithMd(f, md) == [f EXCEPT !.md = md]

Unset(md, k) == ~mdHas(md, k) \/ mdGet(md, k) = <<>>

\* lines 311-321: fill the arrays for artist and album artist
FillArrays(md) ==
  LET ta == IF mdHas(md, "artist") THEN expandList(mdGet(md, "artist"), ";") ELSE <<>>
      m1 == IF mdHas(md, "album artist") /\ ~mdHas(md, "albumartist")
            THEN mdSet(md, "albumArtist", mdGet(md, "album artist"))
            ELSE md
      taa == IF mdHas(m1, "albumartist") THEN expandList(mdGet(m1, "albumartist"), ";") ELSE <<>>
  IN  Frame(m1, ta, taa, FALSE)

\* lines 326-342 (and 346-362): one name of the list looked up in the table
AssignRoles(md, name, table) ==
  LET key == makeKey(name)
  IN  IF key \notin DOMAIN table THEN md
      ELSE
        LET foundArtist == table[key]
            m1 == IF foundArtist.primaryrole = "Orchestra" /\ Unset(md, "orchestra")
                  THEN mdSet(md, "orchestra", foundArtist.name) ELSE md
            m2 == IF foundArtist.primaryrole = "Conductor" /\ Unset(m1, "conductor")
                  THEN mdSet(m1, "conductor", foundArtist.name) ELSE m1
            m3 == IF foundArtist.primaryrole = "Composer" /\ Unset(m2, "composer")
                  THEN mdSet(mdSet(mdSet(mdSet(m2,
                         "composer", foundArtist.name),
                         "composer view", foundArtist.sortorderwithdates),
                         "composersort", foundArtist.sortorder),
                         "epoque", foundArtist.primaryepoque)
                  ELSE m2
        IN  m3

RECURSIVE AssignRolesAll(_, _, _)
AssignRolesAll(md, names, table) ==
  IF names = <<>> THEN md
  ELSE AssignRolesAll(AssignRoles(md, names[1], table), Tail(names), table)

\* lines 325-362: find missing composer, orchestra and conductor; 'key in
\* artistLookup' raises TypeError when artistLookup is None
FindMissingRoles(f, lookup) ==
  IF f.raised THEN f
  ELSE IF ~lookup.loaded /\ (f.trackArtists # <<>> \/ f.trackAlbumArtists # <<>>) THEN Raise(f)
  ELSE WithMd(f, AssignRolesAll(AssignRolesAll(f.md, f.trackArtists, lookup.table),
                                f.trackAlbumArtists, lookup.table))

\* lines 369-387: one composer, looked up
LookupComposer(f, lookup) ==
  IF f.raised THEN f
  ELSE IF mdHas(f.md, "composer") /\ mdGet(f.md, "composer") # <<>>
          /\ Len(expandList(mdGet(f.md, "composer"), ";")) = 1
  THEN LET composerKey == makeKey(mdGet(f.md, "composer"))
       IN  IF ~lookup.loaded THEN Raise(f)
           ELSE IF composerKey \in DOMAIN lookup.table
           THEN LET foundComposer == lookup.table[composerKey]
                    m1 == mdSet(mdSet(mdSet(f.md,
                            "composer", foundComposer.name),
                            "composer view", foundComposer.sortorderwithdates),
                            "composersort", foundComposer.sortorder)
                    m2 == IF foundComposer.primaryepoque # <<>>
                          THEN mdSet(m1, "epoque", foundComposer.primaryepoque) ELSE m1
                IN  IF foundComposer.primaryrole = "Composer" THEN WithMd(f, m2) ELSE f
           ELSE IF ~mdHas(f.md, "composer view")
                THEN LET m1 == mdSet(f.md, "composer view", reverseName(mdGet(f.md, "composer")))
                     IN  WithMd(f, mdSet(m1, "composersort", mdGet(m1, "composer view")))
                ELSE f
  ELSE f

\* lines 391-398 (conductor) and 402-409 (orchestra): normalise against the table
LookupRole(f, lookup, tag, role) ==
  IF f.raised THEN f
  ELSE IF mdHas(f.md, tag) /\ mdGet(f.md, tag) # <<>>
  THEN LET key == makeKey(mdGet(f.md, tag))
       IN  IF ~lookup.loaded THEN Raise(f)
           ELSE IF key \in DOMAIN lookup.table /\ lookup.table[key].primaryrole = role
                THEN WithMd(f, mdSet(f.md, tag, lookup.table[key].name))
                ELSE f
  ELSE f

\* the first name of the list that looks like an orchestra, or none (<< >>)
RECURSIVE FirstOrchestra(_)
FirstOrchestra(names) ==
  IF names = <<>> THEN <<>>
  ELSE IF SearchAny(ORCH_RE, names[1]) THEN << names[1] >> ELSE FirstOrchestra(Tail(names))

\* lines 413-426: an orchestra from a name that looks like one
GuessOrchestra(f) ==
  IF f.raised THEN f
  ELSE LET fromArtists == FirstOrchestra(f.trackArtists)
           m1 == IF ~mdHas(f.md, "orchestra") /\ fromArtists # <<>>
                 THEN mdSet(f.md, "orchestra", fromArtists[1]) ELSE f.md
           fromAlbumArtists == FirstOrchestra(f.trackAlbumArtists)
           m2 == IF ~mdHas(m1, "orchestra") /\ fromAlbumArtists # <<>>
                 THEN mdSet(m1, "orchestra", fromAlbumArtists[1]) ELSE m1
       IN  WithMd(f, m2)

\* lines 439-448: the last album artist similar to the conductor, and the last
\* one similar to the orchestra among those not similar to the conductor
RECURSIVE ScanAlbumArtists(_, _, _, _)
ScanAlbumArtists(names, conductor, orchestra, found) ==
  IF names = <<>> THEN found
  ELSE LET artist == names[1]
           next == IF AreSimilar(lower(artist), lower(conductor))
                   THEN [found EXCEPT !.conductor = artist]
                   ELSE IF AreSimilar(lower(artist), lower(orchestra))
                        THEN [found EXCEPT !.orchestra = artist]
                        ELSE found
       IN  ScanAlbumArtists(Tail(names), conductor, orchestra, next)

\* lines 471-478: the same over the artists, both tests made on every artist
RECURSIVE ScanArtists(_, _, _, _)
ScanArtists(names, conductor, orchestra, found) ==
  IF names = <<>> THEN found
  ELSE LET artist == names[1]
           f1 == IF AreSimilar(lower(artist), lower(conductor))
                 THEN [found EXCEPT !.conductor = artist] ELSE found
           f2 == IF AreSimilar(lower(artist), lower(orchestra))
                 THEN [f1 EXCEPT !.orchestra = artist] ELSE f1
       IN  ScanArtists(Tail(names), conductor, orchestra, f2)

NothingFound == [conductor |-> <<>>, orchestra |-> <<>>]

\* lines 450-457 (and 480-487): conductor, orchestra, then the other names
Rearranged(md, names, found) ==
  LET Other(artist) == lower(artist) # lower(found.orchestra)
                         /\ lower(artist) # lower(found.conductor)
  IN  (IF found.conductor # <<>> THEN << mdGet(md, "conductor") >> ELSE <<>>)
        \o (IF found.orchestra # <<>> THEN << mdGet(md, "orchestra") >> ELSE <<>>)
        \o FilterSeq(Other, names)

\* lines 431-461: conductor and orchestra first in the album artists
RearrangeAlbumArtists(f) ==
  IF f.raised THEN f
  ELSE IF mdHas(f.md, "conductor") \/ mdHas(f.md, "orchestra")
  THEN LET found == ScanAlbumArtists(f.trackAlbumArtists, mdGet(f.md, "conductor"),
                                     mdGet(f.md, "orchestra"), NothingFound)
           tagValue == join(Rearranged(f.md, f.trackAlbumArtists, found), <<";", " ">>)
       IN  IF found.conductor # <<>> \/ found.orchestra # <<>>
           THEN IF mdGet(f.md, "albumartist") # tagValue
                THEN WithMd(f, mdSet(f.md, "albumartist", tagValue)) ELSE f
           ELSE f
  ELSE f

\* lines 466-490: conductor and orchestra first in the artists
RearrangeArtists(f) ==
  IF f.raised THEN f
  ELSE IF mdHas(f.md, "conductor") \/ mdHas(f.md, "orchestra")
  THEN LET found == ScanArtists(f.trackArtists, mdGet(f.md, "conductor"),
                                mdGet(f.md, "orchestra"), NothingFound)
       IN  IF found.conductor # <<>> \/ found.orchestra # <<>>
           THEN WithMd(f, mdSetList(f.md, "artist", Rearranged(f.md, f.trackArtists, found)))
           ELSE f
  ELSE f

\* lines 493-494 and 537-538: resetting arrays
ResetArrays(f) ==
  IF f.raised THEN f
  ELSE [f EXCEPT !.trackAlbumArtists = expandList(mdGet(f.md, "albumartist"), ";"),
                 !.trackArtists = expandList(mdGet(f.md, "artist"), ";")]

\* lines 498-513 (and 517-532): names holding "&" split, but for AMP_RE
SplitAmpersands(names) ==
  LET Pieces(artist) ==
        IF \E i \in DOMAIN artist : artist[i] = "&"
        THEN IF ~SearchAny(AMP_RE, artist) THEN expandList(artist, "&") ELSE << artist >>
        ELSE << artist >>
  IN  concat(MapSeq(Pieces, names))

\* lines 498-534
SplitAmpersandNames(f) ==
  IF f.raised THEN f
  ELSE LET m1 == mdSetList(f.md, "albumartist", SplitAmpersands(f.trackAlbumArtists))
       IN  WithMd(f, mdSetList(m1, "artist", SplitAmpersands(f.trackArtists)))

\* lines 543-558: the composer removed from the artists and album artists
RemoveComposer(f) ==
  IF f.raised THEN f
  ELSE IF mdHas(f.md, "composer")
  THEN LET composer == lower(strip(mdGet(f.md, "composer")))
           NotComposer(artist) == ~AreSimilar(lower(strip(artist)), composer)
           newArtists == MapSeq(strip, FilterSeq(NotComposer, f.trackArtists))
           newAlbumArtistTag == MapSeq(strip, FilterSeq(NotComposer, f.trackAlbumArtists))
           m1 == IF newArtists # <<>> THEN mdSetList(f.md, "artist", newArtists) ELSE f.md
           m2 == IF newAlbumArtistTag # <<>>
                 THEN mdSet(m1, "albumartist", join(newAlbumArtistTag, <<";", " ">>)) ELSE m1
       IN  WithMd(f, m2)
  ELSE f

\* lines 565-580: Various, artist and album artist filled from each other,
\* 'album artist' made the same as 'albumartist'
CrossFill(f) ==
  IF f.raised THEN f
  ELSE LET m1 == IF mdGet(f.md, "albumartist") = <<"V","a","r","i","o","u","s">>
                 THEN mdSet(f.md, "albumartist", <<"V","a","r","i","o","u","s"," ","A","r","t","i","s","t","s">>) ELSE f.md
           m2 == IF ~mdHas(m1, "artist") /\ mdHas(m1, "albumartist")
                 THEN mdSetList(m1, "artist", splitSemi(mdGet(m1, "albumartist"))) ELSE m1
           m3 == IF ~mdHas(m2, "albumartist") /\ mdHas(m2, "artist")
                 THEN mdSet(m2, "albumartist", mdGet(m2, "artist")) ELSE m2
       IN  WithMd(f, mdSet(m3, "album artist", mdGet(m3, "albumartist")))

\* '[[]' + lastName + '[]]' under re.IGNORECASE: in lastName "." is any
\* character; the names of this model hold no other operator but ")"
BracketPattern(lastName) ==
  LET NameElem(c) == IF c = "." THEN NotOf({"\n"}) ELSE One(BothCases(c))
  IN  Pattern(FALSE, << One({"["}) >> \o MapSeq(NameElem, lastName) \o << One({"]"}) >>, FALSE)

\* re.sub raises re.error (unbalanced parenthesis)
BracketPatternRaises(lastName) == \E i \in DOMAIN lastName : lastName[i] = ")"

\* lines 587 and 589: "[lastname]" removed from the album
RemoveBracket(f, tag) ==
  IF f.raised THEN f
  ELSE IF mdHas(f.md, tag)
  THEN IF getLastNameRaises(mdGet(f.md, tag)) THEN Raise(f)
       ELSE IF BracketPatternRaises(getLastName(mdGet(f.md, tag))) THEN Raise(f)
       ELSE WithMd(f, mdSet(f.md, "album",
              strip(reSub(BracketPattern(getLastName(mdGet(f.md, tag))), Repl(<<>>, 0),
                          mdGet(f.md, "album")))))
  ELSE f

\* lines 586-589
BracketCleanup(f) == RemoveBracket(RemoveBracket(f, "conductor"), "composer")

\* lines 596-607: one rule on title and album
ApplyRegex(md, regex) ==
  LET trackName == reSub(regex.pat, regex.repl, mdGet(md, "title"))
      albumName == reSub(regex.pat, regex.repl, mdGet(md, "album"))
      m1 == IF mdGet(md, "title") # trackName THEN mdSet(md, "title", trackName) ELSE md
  IN  IF mdGet(m1, "album") # albumName THEN mdSet(m1, "album", albumName) ELSE m1

RECURSIVE ApplyRegexesFrom(_, _)
ApplyRegexesFrom(md, i) ==
  IF i > Len(regexes) THEN md
  ELSE LET fixed == ApplyRegex(md, regexes[i])
       IN  IF fixed = md THEN ApplyRegexesFrom(md, i + 1) ELSE ApplyRegexesFrom(fixed, i + 1)

\* lines 594-607
ApplyRegexes(f) == IF f.raised THEN f ELSE WithMd(f, ApplyRegexesFrom(f.md, 1))

SUB_GENRES == { <<"o","p","e","r","a">>, <<"o","p","e","r","e","t","t","a">>, <<"o","r","c","h","e","s","t","r","a","l">>, <<"s","y","m","p","h","o","n","i","c">>, <<"c","h","a","m","b","e","r">>, <<"c","h","o","r","a","l">>,
                <<"v","o","c","a","l">>, <<"s","a","c","r","e","d">>, <<"c","o","n","c","e","r","t","o">>, <<"s","o","n","a","t","a">>, <<"o","r","a","t","o","r","i","o">> }

\* lines 612-619 moving every genre but 'Classical' to origgenre
FixGenreAlways(f) ==
  IF f.raised THEN f
  ELSE IF mdHas(f.md, "genre")
  THEN IF mdGet(f.md, "genre") # <<"C","l","a","s","s","i","c","a","l">>
       THEN WithMd(f, mdSet(mdSet(f.md, "origgenre", mdGet(f.md, "genre")),
                            "genre", <<"C","l","a","s","s","i","c","a","l">>))
       ELSE f
  ELSE WithMd(f, mdSet(f.md, "genre", <<"C","l","a","s","s","i","c","a","l">>))

\* lines 612-619
FixGenre(f) ==
  IF f.raised THEN f
  ELSE IF mdHas(f.md, "genre")
  THEN IF mdGet(f.md, "genre") # <<"C","l","a","s","s","i","c","a","l">> /\ lower(mdGet(f.md, "genre")) \in SUB_GENRES
       THEN WithMd(f, mdSet(mdSet(f.md, "origgenre", mdGet(f.md, "genre")),
                            "genre", <<"C","l","a","s","s","i","c","a","l">>))
       ELSE f
  ELSE WithMd(f, mdSet(f.md, "genre", <<"C","l","a","s","s","i","c","a","l">>))

\* datetime.now().strftime(...): the time of the run
Now == <<"2","0","1","9","-","0","1","-","0","1"," ","0","0",":","0","0",":","0","0">>

\* line 622
StampDate(f) == IF f.raised THEN f ELSE WithMd(f, mdSet(f.md, "classicalfixesdate", Now))

\* lines 303 and 625-626: what the try block leaves: the metadata, and whether
\* the except clause was entered
Outcome(f) == [md |-> f.md, raised |-> f.raised]

\* lines 325-409: the roles found from the lookup table, then the composer,
\* the conductor and the orchestra standardized
LookupAll(f, lookup) ==
  LookupRole(LookupRole(LookupComposer(FindMissingRoles(f, lookup), lookup),
                        lookup, "conductor", "Conductor"),
             lookup, "orchestra", "Orchestra")

\* lines 413-558: the orchestra guessed, the credit lists rearranged and split,
\* the composer removed
CreditLists(f) ==
  RemoveComposer(ResetArrays(SplitAmpersandNames(ResetArrays(
    RearrangeArtists(RearrangeAlbumArtists(GuessOrchestra(f)))))))

\* lines 565-622: the lists cross-filled, the album and the title cleaned, the
\* genre fixed, the date stamped
CleanUp(f) == StampDate(FixGenre(ApplyRegexes(BracketCleanup(CrossFill(f)))))

\* fixFile(f) with artistLookup = lookup
fixFile(md, lookup) == Outcome(CleanUp(CreditLists(LookupAll(FillArrays(md), lookup))))

(***************************************************************************)
(* State                                                                   *)
(***************************************************************************)
VARIABLES
  artistLookup,  \* the global lookup table (NoLookup: readArtists returned None)
  files,         \* the files handed to ProcessListOfFiles: their metadata
  clusters,      \* the clusters handed to CombineDiscs: metadata and files
  pc,            \* where the running callback stands
  locals,        \* the local variables of the running callback
  history,       \* ghost record: the inputs and intermediate values the properties read
  store          \* artists.csv beside the plugin: its lines, or Missing

vars == << artistLookup, files, clusters, pc, locals, history, store >>

(***************************************************************************)
(* ProcessListOfFiles                                                      *)
(***************************************************************************)
NoPicture == [albumName |-> <<>>, albumArtists |-> <<>>,
              albumsAllSame |-> TRUE, albumArtistsAllSame |-> TRUE]

\* lines 637-650 (and 667-680): one track added to the picture
PictureStep(pic, md) ==
  IF mdIsEmpty(md) THEN pic
  ELSE LET albumName == IF pic.albumName = <<>> THEN mdGet(md, "album") ELSE pic.albumName
           albumArtists == IF pic.albumArtists = <<>> THEN mdGet(md, "albumartist")
                           ELSE pic.albumArtists
       IN  [albumName |-> albumName,
            albumArtists |-> albumArtists,
            albumsAllSame |-> pic.albumsAllSame /\ mdGet(md, "album") = albumName,
            albumArtistsAllSame |-> pic.albumArtistsAllSame
                                      /\ mdGet(md, "albumartist") = albumArtists]

RECURSIVE PictureFrom(_, _, _)
PictureFrom(objs, i, pic) ==
  IF i > Len(objs) THEN pic ELSE PictureFrom(objs, i + 1, PictureStep(pic, objs[i]))

\* lines 633-650: cache the before picture
BeforePicture(objs) == PictureFrom(objs, 1, NoPicture)

\* lines 663-680: the same picture of the tracks as fixFile left them
NewPicture(objs) == PictureFrom(objs, 1, NoPicture)

\* lines 683-690: one track rolled back
RollbackTrack(md, old, new) ==
  LET m1 == IF old.albumArtistsAllSame /\ ~new.albumArtistsAllSame
            THEN mdSet(mdSet(md, "albumartist", old.albumArtists),
                       "album artist", old.albumArtists)
            ELSE md
  IN  IF old.albumsAllSame /\ ~new.albumsAllSame
      THEN mdSet(m1, "album", old.albumName) ELSE m1

\* lines 682-690
Rollback(objs, old, new) == [i \in 1..Len(objs) |-> RollbackTrack(objs[i], old, new)]

\* ProcessListOfFiles, lines 633-650
CacheBefore ==
  /\ pc = "ProcessListOfFiles"
  /\ locals' = [old |-> BeforePicture(files), track |-> 1]
  /\ pc' = "fixing"
  /\ UNCHANGED << artistLookup, files, clusters, history, store >>

\* lines 653-659 had fixFile no except clause: the exception ends the batch
FixTrackUncaught ==
  /\ pc = "fixing"
  /\ locals.track <= Len(files)
  /\ \E fixed \in {fixFile(files[locals.track], artistLookup)} :
       /\ files' = [files EXCEPT ![locals.track] = fixed.md]
       /\ history' = [history EXCEPT !.outcome =
                        Append(@, IF fixed.raised THEN "raised" ELSE "fixed")]
       /\ pc' = IF fixed.raised THEN "raised" ELSE pc
  /\ locals' = [locals EXCEPT !.track = @ + 1]
  /\ UNCHANGED << artistLookup, clusters, store >>

\* ProcessListOfFiles, lines 653-659: fixFile on the next track
FixTrack ==
  /\ pc = "fixing"
  /\ locals.track <= Len(files)
  /\ \E fixed \in {fixFile(files[locals.track], artistLookup)} :
       \E skipped \in {mdIsEmpty(files[locals.track])} :
         /\ files' = [files EXCEPT ![locals.track] = IF skipped THEN @ ELSE fixed.md]
         /\ history' = [history EXCEPT !.outcome =
                          Append(@, IF skipped THEN "skipped"
                                    ELSE IF fixed.raised THEN "raised" ELSE "fixed")]
  /\ locals' = [locals EXCEPT !.track = @ + 1]
  /\ UNCHANGED << artistLookup, clusters, pc, store >>

\* ProcessListOfFiles, lines 663-690: the new picture, the rollback, the return
CheckRollback ==
  /\ pc = "fixing"
  /\ locals.track > Len(files)
  /\ files' = Rollback(files, locals.old, NewPicture(files))
  /\ history' = [history EXCEPT !.fixedFiles = files]
  /\ pc' = "returned"
  /\ UNCHANGED << artistLookup, clusters, locals, store >>

(***************************************************************************)
(* The batches the fixes are checked on                                    *)
(***************************************************************************)
\* the largest number of files in a batch
MaxFiles == 2

\* a metadata store holding the given tags, one value each
Tagged(kvs) ==
  [k \in Tags |-> IF \E i \in DOMAIN kvs : kvs[i][1] = k
                  THEN << kvs[CHOOSE i \in DOMAIN kvs : kvs[i][1] = k][2] >>
                  ELSE <<>>]

SeqsUpTo(S, n) == UNION {[1..k -> S] : k \in 1..n}

\* a file loaded by the host always has a title
SampleFiles == {
  Tagged(<< <<"title", <<"t">>>>, <<"album", <<"[","K","a","r","a","j","a","n","]">>>>, <<"conductor", <<"K","a","r","a","j","a","n">>>> >>),
  Tagged(<< <<"title", <<"t">>>>, <<"album", <<"[","K","a","r","a","j","a","n","]">>>> >>),
  Tagged(<< <<"title", <<"t">>>>, <<"album", <<"X"," ","[","K","a","r","a","j","a","n","]">>>>, <<"conductor", <<"K","a","r","a","j","a","n">>>>,
            <<"albumartist", <<"Q">>>>, <<"album artist", <<"Q">>>> >>),
  Tagged(<< <<"title", <<"N","o","."," ","9">>>>, <<"album", <<"X"," ","[","K","a","r","a","j","a","n","]">>>>, <<"artist", <<"Z","e","d">>>>,
            <<"albumartist", <<"Q">>>>, <<"album artist", <<"P">>>> >>),
  Tagged(<< <<"title", <<"t">>>>, <<"album", <<"X"," ","[","K","a","r","a","j","a","n","]">>>>, <<"artist", <<"Z","e","d"," ","&"," ","B","a","n","d">>>> >>),
  Tagged(<< <<"title", <<"t">>>>, <<"album", <<"X"," ","[","K","a","r","a","j","a","n","]">>>>, <<"albumartist", <<"Q">>>>,
            <<"conductor", <<"B","o",")">>>> >>),
  Tagged(<< <<"title", <<"t">>>>, <<"album", <<"X"," ","[","K","a","r","a","j","a","n","]">>>>, <<"albumartist", <<"Q",";"," ","C","y">>>>,
            <<"composer", <<"C","y">>>>, <<"genre", <<"O","p","e","r","a">>>> >>),
  Tagged(<< <<"title", <<"t">>>>, <<"album", <<"X"," ","[","K","a","r","a","j","a","n","]">>>>, <<"albumartist", <<"Q",";"," ","C","y">>>>,
            <<"album artist", <<"Q",";"," ","C","y">>>>, <<"genre", <<"R","o","c","k">>>> >>),
  [Tagged(<< <<"title", <<"t">>>>, <<"album", <<"X">>>> >>)
     EXCEPT !["artist"] = << <<"B","P","O">>, <<"A","l"," ","B","o">> >>],
  Tagged(<< <<"title", <<"t">>>>, <<"album", <<"X">>>>, <<"artist", <<"B","o",";"," ","B","P","O">>>> >>),
  Tagged(<< <<"title", <<"t">>>>, <<"album", <<"X">>>>, <<"artist", <<"C","y">>>>,
            <<"composer", <<"C","y">>>> >>),
  Tagged(<< <<"title", <<"t">>>>, <<"album", <<"X"," ","[","B","o","]">>>>,
            <<"conductor", <<"A","l"," ","B","o">>>> >>),
  Tagged(<< <<"title", <<"t">>>>, <<"album", <<"X">>>>, <<"artist", <<"Z","e","d">>>>,
            <<"albumartist", <<"Q",";"," ","B","P","O",";"," ","A","l"," ","B","o">>>>,
            <<"conductor", <<"A","l"," ","B","o">>>>, <<"orchestra", <<"B","P","O">>>> >>),
  Tagged(<< <<"title", <<"t">>>>, <<"album", <<"X">>>>, <<"artist", <<"Z","e","d">>>>,
            <<"albumartist", <<"Q",";"," ","A","l"," ","B","o">>>>,
            <<"conductor", <<"A","l"," ","B","o">>>>, <<"composer", <<"A","l"," ","B","o">>>> >>),
  Tagged(<< <<"title", <<"t">>>>, <<"album", <<"X">>>>, <<"artist", <<"&">>>> >>) }

\* a lookup table that knows one conductor
SampleTable == upsertArtist(<<>>, <<"K","a","r","a","j","a","n">>, <<"K","a","r","a","j","a","n">>, <<>>, "Conductor", <<>>).dict

\* a lookup table that knows two conductors and an orchestra
SampleRegistry ==
  upsertArtist(upsertArtist(SampleTable, <<"A","l"," ","B","o">>, <<"B","o",","," ","A","l">>,
                            <<>>, "Conductor", <<>>).dict,
               <<"B","P","O">>, <<"B","P","O">>, <<>>, "Orchestra", <<>>).dict

InitFix ==
  /\ artistLookup \in {NoLookup, Lookup(SampleRegistry)}
  /\ store = StoreOf(artistLookup)
  /\ files \in SeqsUpTo(SampleFiles, MaxFiles)
  /\ clusters = <<>>
  /\ pc = "ProcessListOfFiles"
  /\ locals = [old |-> NoPicture, track |-> 0]
  /\ history = [before |-> files, fixedFiles |-> <<>>, outcome |-> <<>>]

NextFix == CacheBefore \/ FixTrack \/ CheckRollback

\* FixFileAction on a selection of files
SpecFix == InitFix /\ [][NextFix]_vars

(***************************************************************************)
(* CombineDiscs.callback                                                   *)
(***************************************************************************)
\* a cluster: its own metadata and the metadata of its files
Cluster(metadata, fs) == [metadata |-> metadata, files |-> fs]

\* DISC_RE.match(album): the lengths the elements matched, or NoMatch
DiscMatch(album) == MatchAt(DISC_RE, album, 1)

\* result.group(1).strip(';,-: ')
DiscPrefix(album) ==
  stripChars(GroupText(DISC_RE, album, 1, DiscMatch(album), 1), {";", ",", "-", ":", " "})

\* result.group(2)
DiscNumberText(album) == GroupText(DISC_RE, album, 1, DiscMatch(album), 2)

Rejected(message) == [ok |-> FALSE, albumName |-> <<>>, log |-> message]

\* lines 863-882: the validation loop from cluster i on
RECURSIVE ValidateFrom(_, _, _)
ValidateFrom(objs, i, albumName) ==
  IF i > Len(objs) THEN [ok |-> TRUE, albumName |-> albumName, log |-> "Combining"]
  ELSE IF objs[i].files = <<>> THEN Rejected("not a cluster")
  ELSE IF DiscMatch(mdGet(objs[i].metadata, "album")) = NoMatch
       THEN Rejected("not a multi-disc set")
  ELSE IF albumName = <<>>
       THEN ValidateFrom(objs, i + 1, DiscPrefix(mdGet(objs[i].metadata, "album")))
  ELSE IF DiscPrefix(mdGet(objs[i].metadata, "album")) # albumName
       THEN Rejected("Album name mismatch")
  ELSE ValidateFrom(objs, i + 1, albumName)

\* the search for the matching cluster ended in an exception
Raised == -1

\* lines 892-904: the first cluster whose album names disc currdisc, 0 if none;
\* int(result.group(2)) raises on a cluster met before it that names no number
RECURSIVE FindByAlbum(_, _, _)
FindByAlbum(objs, i, currdisc) ==
  IF i > Len(objs) THEN 0
  ELSE IF IntRaises(DiscNumberText(mdGet(objs[i].metadata, "album"))) THEN Raised
  ELSE IF StrToInt(DiscNumberText(mdGet(objs[i].metadata, "album"))) = currdisc THEN i
  ELSE FindByAlbum(objs, i + 1, currdisc)

\* lines 909-914: 1 if a file of the cluster carries discnumber currdisc, 0 if
\* none does; int(f.metadata['discnumber']) raises on a file met before it
RECURSIVE FindInFiles(_, _, _)
FindInFiles(fs, i, currdisc) ==
  IF i > Len(fs) THEN 0
  ELSE IF mdIsEmpty(fs[i]) THEN FindInFiles(fs, i + 1, currdisc)
  ELSE IF IntRaises(mdGet(fs[i], "discnumber")) THEN Raised
  ELSE IF StrToInt(mdGet(fs[i], "discnumber")) = currdisc THEN 1
  ELSE FindInFiles(fs, i + 1, currdisc)

\* lines 906-915: the first cluster with a file of disc currdisc, 0 if none
RECURSIVE FindByDiscnumber(_, _, _)
FindByDiscnumber(objs, i, currdisc) ==
  IF i > Len(objs) THEN 0
  ELSE IF FindInFiles(objs[i].files, 1, currdisc) = Raised THEN Raised
  ELSE IF FindInFiles(objs[i].files, 1, currdisc) = 1 THEN i
  ELSE FindByDiscnumber(objs, i + 1, currdisc)

\* line 906: the files are searched only if the albums gave no cluster
OrByDiscnumber(byAlbum, objs, currdisc) ==
  IF byAlbum # 0 THEN byAlbum ELSE FindByDiscnumber(objs, 1, currdisc)

\* lines 889-915 taking the cluster selected in place currdisc for disc currdisc
MatchingClusterByPlace(objs, currdisc) == currdisc

\* lines 889-915: matchingCluster as an index into objs, 0 for None
MatchingCluster(objs, currdisc) ==
  OrByDiscnumber(FindByAlbum(objs, 1, currdisc), objs, currdisc)

\* lines 918-922: the album artist is taken from the cluster of disc 1
DiscOneArtist(metadata, currdisc, albumArtist) ==
  IF currdisc # 1 THEN albumArtist
  ELSE IF mdHas(metadata, "albumartist") THEN mdGet(metadata, "albumartist")
  ELSE IF mdHas(metadata, "album artist") THEN mdGet(metadata, "album artist")
  ELSE albumArtist

\* lines 927-932: the date is taken from the first file of disc 1
DiscOneDate(fs, currdisc, albumDate) ==
  IF currdisc = 1 /\ mdHas(fs[1], "date") THEN mdGet(fs[1], "date") ELSE albumDate

\* lines 934-939: the album values set on one file
SetAlbumValues(md, albumName, albumArtist, currdisc, totalClusters, albumDate) ==
  mdSet(mdSet(mdSet(mdSet(mdSet(mdSet(md,
    "album", albumName),
    "albumartist", albumArtist),
    "album artist", albumArtist),
    "discnumber", IntToStr(currdisc)),
    "totaldiscs", IntToStr(totalClusters)),
    "date", albumDate)

\* lines 946-949: the cluster-level data set on one cluster
SetClusterValues(cluster, albumName, albumArtist) ==
  [cluster EXCEPT !.metadata = mdSet(mdSet(@, "album", albumName), "albumartist", albumArtist)]

\* CombineDiscs.callback, lines 857-886: the validation
Validate ==
  /\ pc = "CombineDiscs"
  /\ \E checked \in {ValidateFrom(clusters, 1, <<>>)} :
       /\ pc' = IF checked.ok THEN "combining" ELSE "returned"
       /\ locals' = [albumArtist |-> <<>>, albumName |-> checked.albumName, albumDate |-> <<>>,
                     currdisc |-> 1, totalClusters |-> Len(clusters)]
       /\ history' = [history EXCEPT !.log = checked.log]
  /\ UNCHANGED << artistLookup, files, clusters, store >>

\* CombineDiscs.callback, lines 888-942: one round of the while loop
MergeDisc ==
  /\ pc = "combining"
  /\ locals.currdisc <= locals.totalClusters
  /\ \E m \in {MatchingCluster(clusters, locals.currdisc)} :
       IF m = Raised
       THEN /\ pc' = "returned"
            /\ history' = [history EXCEPT !.log = "Combining error"]
            /\ UNCHANGED << clusters, locals >>
       ELSE IF m = 0
       THEN /\ locals' = [locals EXCEPT !.currdisc = @ + 1]
            /\ history' = [history EXCEPT !.resolved = Append(@, 0)]
            /\ UNCHANGED << clusters, pc >>
       ELSE \E albumArtist \in {DiscOneArtist(clusters[m].metadata, locals.currdisc,
                                              locals.albumArtist)} :
            \E albumDate \in {DiscOneDate(clusters[m].files, locals.currdisc,
                                          locals.albumDate)} :
              /\ clusters' = [clusters EXCEPT ![m].files =
                   [i \in DOMAIN @ |->
                      SetAlbumValues(@[i], locals.albumName, albumArtist, locals.currdisc,
                                     locals.totalClusters, albumDate)]]
              /\ locals' = [locals EXCEPT !.currdisc = @ + 1, !.albumArtist = albumArtist,
                                          !.albumDate = albumDate]
              /\ history' = [history EXCEPT !.resolved = Append(@, m)]
              /\ UNCHANGED pc
  /\ UNCHANGED << artistLookup, files, store >>

\* CombineDiscs.callback, lines 945-950: the cluster-level data
SetClusterData ==
  /\ pc = "combining"
  /\ locals.currdisc > locals.totalClusters
  /\ clusters' = [i \in DOMAIN clusters |->
                    SetClusterValues(clusters[i], locals.albumName, locals.albumArtist)]
  /\ history' = [history EXCEPT !.log = "Setting cluster-level data"]
  /\ pc' = "returned"
  /\ UNCHANGED << artistLookup, files, locals, store >>

(***************************************************************************)
(* The selections of clusters the merge is checked on                      *)
(***************************************************************************)
\* the largest number of clusters in a selection
MaxClusters == 3

\* the album "<prefix>Disc <k>"
DiscAlbum(prefix, k) == prefix \o <<"D","i","s","c"," ">> \o IntToStr(k)

\* a file of a cluster: its title, its album and the tags given
Member(album, kvs) == Tagged(<< <<"title", <<"t">>>>, <<"album", album>> >> \o kvs)

\* disc k of the set "R": its files carry the disc number; disc 1 has two
\* files, the first of them dated
SetDisc(k) ==
  Cluster(Tagged(<< <<"album", DiscAlbum(<<"R"," ">>, k)>>, <<"albumartist", <<"Q">>>> >>),
          IF k = 1
          THEN << Member(DiscAlbum(<<"R"," ">>, k), << <<"discnumber", IntToStr(k)>>, <<"date", <<"1","9","9","9">>>>, <<"albumartist", <<"P">>>> >>),
                  Member(DiscAlbum(<<"R"," ">>, k), << <<"discnumber", IntToStr(k)>> >>) >>
          ELSE << Member(DiscAlbum(<<"R"," ">>, k), << <<"discnumber", IntToStr(k)>> >>) >>)

SampleClusters ==
  {SetDisc(k) : k \in 1..MaxClusters} \cup {
    \* the album names no number; the file says disc 2
    Cluster(Tagged(<< <<"album", <<"R"," ","D","i","s","c">>>> >>),
            << Member(<<"R"," ","D","i","s","c">>, << <<"discnumber", <<"2">>>> >>) >>),
    \* nothing stands before "Disc"
    Cluster(Tagged(<< <<"album", DiscAlbum(<<>>, 1)>> >>),
            << Member(DiscAlbum(<<>>, 1), << <<"discnumber", <<"1">>>> >>) >>),
    \* another set
    Cluster(Tagged(<< <<"album", DiscAlbum(<<"S"," ">>, 2)>>, <<"album artist", <<"Z">>>> >>),
            << Member(DiscAlbum(<<"S"," ">>, 2), << <<"discnumber", <<"2">>>> >>) >>),
    \* no disc in the album
    Cluster(Tagged(<< <<"album", <<"R">>>> >>),
            << Member(<<"R">>, << <<"discnumber", <<"1">>>> >>) >>),
    \* disc 2 written "R, disk2", its file without a disc number
    Cluster(Tagged(<< <<"album", <<"R",","," ","d","i","s","k","2">>>> >>),
            << Member(<<"R",","," ","d","i","s","k","2">>, <<>>) >>),
    \* the album says disc 4 and the file disc 1, no album artist on the cluster
    Cluster(Tagged(<< <<"album", DiscAlbum(<<"R"," ">>, 4)>> >>),
            << Member(DiscAlbum(<<"R"," ">>, 4), << <<"discnumber", <<"1">>>>, <<"date", <<"2","0","0","1">>>> >>) >>),
    \* the album says disc 2 and the file disc 1; the file is dated and credited
    Cluster(Tagged(<< <<"album", DiscAlbum(<<"R"," ">>, 2)>>, <<"albumartist", <<"Q">>>> >>),
            << Member(DiscAlbum(<<"R"," ">>, 2), << <<"discnumber", <<"1">>>>, <<"date", <<"2","0","0","1">>>>, <<"albumartist", <<"P">>>> >>) >>),
    \* the host's cluster of unclustered files, empty
    Cluster(Tagged(<< <<"album", <<"U","n","c","l","u","s","t","e","r","e","d"," ","F","i","l","e","s">>>> >>), <<>>) }

InitDiscs ==
  /\ artistLookup = NoLookup
  /\ store = StoreOf(artistLookup)
  /\ files = <<>>
  /\ clusters \in SeqsUpTo(SampleClusters, MaxClusters)
  /\ pc = "CombineDiscs"
  /\ locals = [albumArtist |-> <<>>, albumName |-> <<>>, albumDate |-> <<>>,
               currdisc |-> 0, totalClusters |-> 0]
  /\ history = [before |-> clusters, log |-> "", resolved |-> <<>>]

NextDiscs == Validate \/ MergeDisc \/ SetClusterData

\* CombineDiscs on a selection of clusters
SpecDiscs == InitDiscs /\ [][NextDiscs]_vars

(***************************************************************************)
(* The lookup table under upsertArtist                                     *)
(***************************************************************************)
\* the largest number of calls of upsertArtist in a run
MaxUpserts == 2

\* the names the menu actions read from the composer, conductor and orchestra tags
SampleNames == {
  <<"A","l"," ","B","o">>, <<"C","y"," ","B","o">>, <<"A","l","i"," ","B","o">>,
  <<"B","o">>, <<"A","b","o">>, <<"A","l"," ","B","o"," ","J","r">>, <<" ">> }

SampleRoles == {"Composer", "Conductor", "Orchestra"}

\* lines 734, 758, 781: one call of upsertArtist on the global table, with the
\* arguments the three menu actions pass for the role
Upsert ==
  /\ pc = "upsertArtist"
  /\ locals.calls < MaxUpserts
  /\ \E name \in SampleNames, primaryRole \in SampleRoles :
       \E sortOrderName \in {IF primaryRole = "Orchestra" THEN name ELSE reverseName(name)} :
       \E epoque \in {IF primaryRole = "Composer" THEN <<"B","a","r","o","q","u","e">> ELSE <<>>} :
       \E upserted \in {upsertArtist(artistLookup.table, name, sortOrderName,
                                     IF primaryRole = "Composer" THEN sortOrderName ELSE <<>>,
                                     primaryRole, epoque)} :
         /\ artistLookup' = Lookup(upserted.dict)
         /\ history' = [prev |-> artistLookup.table, name |-> name,
                        sortOrderName |-> sortOrderName,
                        sortOrderNameWithDates |->
                          IF primaryRole = "Composer" THEN sortOrderName ELSE <<>>,
                        primaryRole |-> primaryRole, epoque |-> epoque,
                        raised |-> upserted.raised,
                        earlier |-> [name |-> history.name,
                                     primaryRole |-> history.primaryRole]]
  /\ locals' = [calls |-> locals.calls + 1]
  /\ UNCHANGED << files, clusters, pc, store >>

InitUpsert ==
  /\ artistLookup \in {Lookup(<<>>), Lookup(SampleTable)}
  /\ store = StoreOf(artistLookup)
  /\ files = <<>>
  /\ clusters = <<>>
  /\ pc = "upsertArtist"
  /\ locals = [calls |-> 0]
  /\ history = [prev |-> artistLookup.table, name |-> <<>>, sortOrderName |-> <<>>,
                sortOrderNameWithDates |-> <<>>, primaryRole |-> "", epoque |-> <<>>,
                raised |-> FALSE, earlier |-> [name |-> <<>>, primaryRole |-> ""]]

NextUpsert == Upsert

\* the menu actions adding artists to the lookup table
SpecUpsert == InitUpsert /\ [][NextUpsert]_vars

(***************************************************************************)
(* ComposerFileAction, ConductorFileAction, OrchestraFileAction            *)
(***************************************************************************)
\* the arguments of one upsertArtist call
Credit(name, sortOrderName, sortOrderNameWithDates, primaryRole, epoque) ==
  [name |-> name, sortOrderName |-> sortOrderName,
   sortOrderNameWithDates |-> sortOrderNameWithDates,
   primaryRole |-> primaryRole, epoque |-> epoque]

\* lines 729-732: sortOrderWithDates[:parenpos+1].strip('( '), parenpos the place
\* of the first '(' (-1 if none), replaced by 100 when it is 0
ComposerSortOrder(sortOrderWithDates) ==
  stripChars(
    IF FindChar(sortOrderWithDates, "(", 1) > Len(sortOrderWithDates) THEN <<>>
    ELSE IF FindChar(sortOrderWithDates, "(", 1) = 1
         THEN Slice(sortOrderWithDates, 1, IF Len(sortOrderWithDates) < 101
                                              THEN Len(sortOrderWithDates) ELSE 101)
         ELSE Slice(sortOrderWithDates, 1, FindChar(sortOrderWithDates, "(", 1)),
    {"(", " "})

\* lines 719-725: the track reaches the upsertArtist call of ComposerFileAction
HasComposer(md) ==
  ~mdIsEmpty(md) /\ mdHas(md, "composer") /\ mdHas(md, "composer view") /\ mdHas(md, "epoque")

\* lines 727-734
ComposerCredit(md) ==
  Credit(mdGet(md, "composer"), ComposerSortOrder(mdGet(md, "composer view")),
         mdGet(md, "composer view"), "Composer", mdGet(md, "epoque"))

\* lines 753-755
HasConductor(md) == ~mdIsEmpty(md) /\ mdHas(md, "conductor")

\* lines 756-758
ConductorCredit(md) ==
  Credit(mdGet(md, "conductor"), reverseName(mdGet(md, "conductor")), <<>>, "Conductor", <<>>)

\* lines 777-779
HasOrchestra(md) == ~mdIsEmpty(md) /\ mdHas(md, "orchestra")

\* lines 780-781
OrchestraCredit(md) ==
  Credit(mdGet(md, "orchestra"), mdGet(md, "orchestra"), <<>>, "Orchestra", <<>>)

\* the upsertArtist calls a handler makes for its selection, in order
Credits(objs, handler) ==
  IF handler = "ComposerFileAction" THEN MapSeq(ComposerCredit, FilterSeq(HasComposer, objs))
  ELSE IF handler = "ConductorFileAction" THEN MapSeq(ConductorCredit, FilterSeq(HasConductor, objs))
  ELSE MapSeq(OrchestraCredit, FilterSeq(HasOrchestra, objs))

\* the loop of a handler from its i-th call on: the table it leaves and whether
\* a call raised. upsertArtist on None raises at its first write, line 184.
RECURSIVE UpsertFrom(_, _, _)
UpsertFrom(credits, i, lookup) ==
  IF i > Len(credits) THEN [lookup |-> lookup, raised |-> FALSE]
  ELSE IF ~lookup.loaded THEN [lookup |-> lookup, raised |-> TRUE]
  ELSE IF upsertArtist(lookup.table, credits[i].name, credits[i].sortOrderName,
                       credits[i].sortOrderNameWithDates, credits[i].primaryRole,
                       credits[i].epoque).raised
       THEN [lookup |-> Lookup(upsertArtist(lookup.table, credits[i].name,
                                 credits[i].sortOrderName, credits[i].sortOrderNameWithDates,
                                 credits[i].primaryRole, credits[i].epoque).dict),
             raised |-> TRUE]
       ELSE UpsertFrom(credits, i + 1,
                       Lookup(upsertArtist(lookup.table, credits[i].name,
                                credits[i].sortOrderName, credits[i].sortOrderNameWithDates,
                                credits[i].primaryRole, credits[i].epoque).dict))

\* the number of menu actions in one run
MaxActions == 2

\* the selections of the sample
MaxSelected == 2

SampleTracks == {
  EmptyMetadata,
  Tagged(<< <<"title", <<"t">>>>, <<"conductor", <<"A","l"," ","B","o">>>>,
            <<"orchestra", <<"B","a","n","d">>>> >>),
  Tagged(<< <<"title", <<"t">>>>, <<"conductor", <<"A","l"," "," ","B","o">>>> >>),
  Tagged(<< <<"title", <<"t">>>>, <<"composer", <<"C","y"," ","B","o">>>>,
            <<"composer view", <<"B","o",","," ","C","y"," ","(","1","7","0","0",")">>>>,
            <<"epoque", <<"B","a","r","o","q","u","e">>>> >>),
  Tagged(<< <<"title", <<"t">>>>, <<"composer", <<"E","d">>>> >>) }

\* one handler from its first line to its last: the loop over the selection,
\* then saveArtists unless a call raised (the except clause only logs)
FileAction(handler) ==
  /\ pc = "menu"
  /\ locals.actions < MaxActions
  /\ \E objs \in SeqsUpTo(SampleTracks, MaxSelected) :
     \E done \in {UpsertFrom(Credits(objs, handler), 1, artistLookup)} :
       /\ files' = objs
       /\ artistLookup' = done.lookup
       /\ store' = IF done.raised THEN store ELSE saveArtists(done.lookup)
       /\ history' = [handler |-> handler, before |-> artistLookup,
                      credits |-> Credits(objs, handler), raised |-> done.raised]
  /\ locals' = [actions |-> locals.actions + 1]
  /\ UNCHANGED << clusters, pc >>

ComposerFileAction == FileAction("ComposerFileAction")

ConductorFileAction == FileAction("ConductorFileAction")

OrchestraFileAction == FileAction("OrchestraFileAction")

\* line 299: the table is read once, when the plugin is loaded
InitLookup ==
  /\ store \in {Missing, Stored({}), saveArtists(Lookup(SampleTable))}
  /\ artistLookup = readArtists(store)
  /\ files = <<>>
  /\ clusters = <<>>
  /\ pc = "menu"
  /\ locals = [actions |-> 0]
  /\ history = [handler |-> "", before |-> artistLookup, credits |-> <<>>, raised |-> FALSE]

NextLookup == ComposerFileAction \/ ConductorFileAction \/ OrchestraFileAction

\* the three menu actions that add artists to artists.csv
SpecLookup == InitLookup /\ [][NextLookup]_vars

(***************************************************************************)
(* NumberTracksInAlbumFileAction, RenumberFiles                            *)
(***************************************************************************)
\* the characters of the sample in code point order
CodeOrder == <<" ">> \o DigitChars \o UpperCase \o LowerCase

Ord(c) == CHOOSE i \in DOMAIN CodeOrder : CodeOrder[i] = c

\* a < b on strings, from position p on
RECURSIVE LessFrom(_, _, _)
LessFrom(a, b, p) ==
  IF p > Len(b) THEN FALSE
  ELSE IF p > Len(a) THEN TRUE
  ELSE IF a[p] = b[p] THEN LessFrom(a, b, p + 1)
  ELSE Ord(a[p]) < Ord(b[p])

\* s.zfill(width)
zfill(s, width) ==
  IF Len(s) >= width THEN s
  ELSE IF s # <<>> /\ s[1] \in {"+", "-"}
       THEN << s[1] >> \o [i \in 1..(width - Len(s)) |-> "0"] \o Tail(s)
       ELSE [i \in 1..(width - Len(s)) |-> "0"] \o s

\* lines 269-270
track_key(md) ==
  mdGet(md, "albumartist") \o mdGet(md, "album") \o zfill(mdGet(md, "discnumber"), 4)
    \o zfill(mdGet(md, "tracknumber"), 7)

\* a track put into a list sorted by track_key, behind the tracks of the same key
RECURSIVE InsertTrack(_, _)
InsertTrack(tracks, md) ==
  IF tracks = <<>> THEN << md >>
  ELSE IF LessFrom(track_key(md), track_key(Head(tracks)), 1) THEN << md >> \o tracks
  ELSE << Head(tracks) >> \o InsertTrack(Tail(tracks), md)

\* line 701: sorted(objs, key=track_key), a stable sort
RECURSIVE sorted(_)
sorted(objs) ==
  IF objs = <<>> THEN <<>>
  ELSE InsertTrack(sorted(SubSeq(objs, 1, Len(objs) - 1)), objs[Len(objs)])

\* lines 279-282: the counter RenumberFiles uses for the file
TrackFor(md, curr) ==
  IF mdGet(md, "album") # curr.currAlbum \/ mdGet(md, "albumartist") # curr.currAlbumArtist
  THEN 1 ELSE curr.currTrack

\* lines 283-284
KeepDisc(md) ==
  IF mdGet(md, "discnumber") # <<"1">>
  THEN mdSet(md, "origdiscnumber", mdGet(md, "discnumber")) ELSE md

\* lines 285-286
KeepTrack(md, currTrack) ==
  IF mdGet(md, "tracknumber") # IntToStr(currTrack)
  THEN mdSet(md, "origtracknumber", mdGet(md, "tracknumber")) ELSE md

\* lines 283-288 on the counter as the file before left it, not set back to 1
RenumberedOn(md, curr) ==
  mdSet(mdSet(KeepTrack(KeepDisc(md), curr.currTrack), "discnumber", IntToStr(1)),
        "tracknumber", IntToStr(curr.currTrack))

\* lines 279-288: the metadata of one file after its turn in the loop
Renumbered(md, curr) ==
  mdSet(mdSet(KeepTrack(KeepDisc(md), TrackFor(md, curr)), "discnumber", IntToStr(1)),
        "tracknumber", IntToStr(TrackFor(md, curr)))

\* the number of renumber actions run on one selection
MaxRuns == 2

\* the files of the selection in the order they were selected in: a file is
\* known by its title
Selected(fs) ==
  [i \in DOMAIN history.objs |->
     fs[CHOOSE j \in DOMAIN fs : fs[j]["title"] = history.objs[i]["title"]]]

\* lines 800-804: the files of the selected clusters, cluster after cluster; a
\* cluster without files is passed over
RECURSIVE AllFiles(_, _)
AllFiles(objs, fs) ==
  IF objs = <<>> THEN <<>>
  ELSE IF Head(objs).files = <<>> THEN AllFiles(Tail(objs), fs)
  ELSE [i \in DOMAIN Head(objs).files |-> fs[Head(objs).files[i]]] \o AllFiles(Tail(objs), fs)

\* a renumber action entered on the list it made of its selection: the list
\* sorted (lines 701, 810), RenumberFiles entered (lines 274-276)
Entered(handler, allFiles) ==
  /\ pc \in {"menu", "returned"}
  /\ history.runs < MaxRuns
  /\ files' = sorted(allFiles)
  /\ history' = [history EXCEPT !.tracks = sorted(allFiles), !.runs = @ + 1,
                                !.handler = handler, !.first = Selected(files)]
  /\ locals' = [currAlbum |-> <<>>, currAlbumArtist |-> <<>>, currTrack |-> 1, file |-> 1]
  /\ pc' = "RenumberFiles"
  /\ UNCHANGED << artistLookup, clusters, store >>

\* NumberTracksInAlbumFileAction.callback, lines 698-702
NumberTracks == Entered("NumberTracksInAlbumFileAction", Selected(files))

\* NumberTracksInAlbumClusterAction.callback, lines 797-812
NumberClusterTracks ==
  Entered("NumberTracksInAlbumClusterAction", AllFiles(clusters, Selected(files)))

\* lines 278-290: one turn of the loop
RenumberFile ==
  /\ pc = "RenumberFiles"
  /\ locals.file <= Len(files)
  /\ files' = [files EXCEPT ![locals.file] = Renumbered(@, locals)]
  /\ locals' = [currAlbum |-> mdGet(files[locals.file], "album"),
                currAlbumArtist |-> mdGet(files[locals.file], "albumartist"),
                currTrack |-> TrackFor(files[locals.file], locals) + 1,
                file |-> locals.file + 1]
  /\ UNCHANGED << artistLookup, clusters, pc, history, store >>

\* the loop is over: RenumberFiles and the callback return
RenumberDone ==
  /\ pc = "RenumberFiles"
  /\ locals.file > Len(files)
  /\ pc' = "returned"
  /\ UNCHANGED << artistLookup, files, clusters, locals, history, store >>

\* the files of one selection
MaxTracks == 3

\* a track of the given album, albumartist, discnumber and tracknumber
Track(album, albumartist, discnumber, tracknumber) ==
  Tagged(<< <<"title", <<"t">>>>, <<"album", album>>, <<"albumartist", albumartist>>,
            <<"discnumber", discnumber>>, <<"tracknumber", tracknumber>> >>)

SampleAlbum == {
  Track(<<"A">>, <<"P">>, <<"1">>, <<"1">>),
  Track(<<"A">>, <<"P">>, <<"1">>, <<"2">>),
  Track(<<"A">>, <<"P">>, <<"2">>, <<"1">>),
  Track(<<"A">>, <<"Q">>, <<"1">>, <<"0","1">>),
  [Track(<<"B">>, <<"P">>, <<"1">>, <<"3">>) EXCEPT !["discnumber"] = <<>>,
                                                     !["origdiscnumber"] = << <<"9">> >>],
  Track(<<"A","B">>, <<"P">>, <<"1">>, <<"2">>),
  Track(<<"B">>, <<"P","A">>, <<"1">>, <<"1">>),
  Track(<<"B">>, <<"P","A">>, <<"1">>, <<"3">>) }

\* the positions a..b of the selection, as the files of a cluster
Positions(a, b) == [i \in 1..(b - a + 1) |-> a + i - 1]

\* a selection of files, each with a title of its own, which is also the
\* selection of three clusters: one of the first file, one without files, one
\* of the other files
InitRenumber ==
  /\ artistLookup = NoLookup
  /\ store = StoreOf(artistLookup)
  /\ \E selection \in SeqsUpTo(SampleAlbum, MaxTracks) :
       files = [i \in DOMAIN selection |-> mdSet(selection[i], "title", IntToStr(i))]
  /\ clusters = << Cluster(EmptyMetadata, Positions(1, 1)), Cluster(EmptyMetadata, <<>>),
                   Cluster(EmptyMetadata, Positions(2, Len(files))) >>
  /\ pc = "menu"
  /\ locals = [currAlbum |-> <<>>, currAlbumArtist |-> <<>>, currTrack |-> 1, file |-> 1]
  /\ history = [objs |-> files, tracks |-> <<>>, runs |-> 0, handler |-> "", first |-> files]

NextRenumber == NumberTracks \/ NumberClusterTracks \/ RenumberFile \/ RenumberDone

\* the renumber actions on a selection of files or of clusters
SpecRenumber == InitRenumber /\ [][NextRenumber]_vars

(***************************************************************************)
(* makeKey on the variants of a name                                       *)
(***************************************************************************)
\* the length of a name and the number of changes made to it
MaxName == 2

MaxEdits == 2

\* the characters the names are drawn from
NameChars == {"A", "b", "Sigma", "o_uml", "uml", " ", "."}

\* the other case of a letter
SwapCase(c) ==
  IF c \in UpperSet THEN ToLower[c]
  ELSE IF c \in LowerSet THEN ToUpper[c]
  ELSE IF c = "Sigma" THEN "sigma"
  ELSE "Sigma"

\* s with c put in behind position p, and s without the character at position p
Inserted(s, p, c) == SubSeq(s, 1, p) \o << c >> \o SubSeq(s, p + 1, Len(s))

Deleted(s, p) == SubSeq(s, 1, p - 1) \o SubSeq(s, p + 1, Len(s))

\* makeKey called on the name and on a variant of it
Keyed(variant) ==
  /\ pc = "makeKey"
  /\ locals.edits < MaxEdits
  /\ locals' = [name |-> locals.name, variant |-> variant, edits |-> locals.edits + 1]
  /\ history' = [key |-> makeKey(locals.name), variantKey |-> makeKey(variant)]
  /\ UNCHANGED << artistLookup, files, clusters, pc, store >>

\* the case of one letter changed
ChangeCase ==
  \E p \in DOMAIN locals.variant :
    /\ locals.variant[p] \in UpperSet \cup LowerSet \cup {"Sigma", "sigma", "fsigma"}
    /\ Keyed([locals.variant EXCEPT ![p] = SwapCase(@)])

\* a combining mark added
AddMark ==
  \E p \in DOMAIN locals.variant, mark \in CombiningMarks :
    Keyed(Inserted(locals.variant, p, mark))

\* a combining mark removed
RemoveMark ==
  \E p \in DOMAIN locals.variant :
    /\ locals.variant[p] \in CombiningMarks
    /\ Keyed(Deleted(locals.variant, p))

\* one of - ' . , / and the space inserted
InsertPunctuation ==
  \E p \in 0..Len(locals.variant), c \in KeyStripped :
    Keyed(Inserted(locals.variant, p, c))

\* one of - ' . , / and the space deleted
DeletePunctuation ==
  \E p \in DOMAIN locals.variant :
    /\ locals.variant[p] \in KeyStripped
    /\ Keyed(Deleted(locals.variant, p))

InitKey ==
  /\ artistLookup = NoLookup
  /\ store = StoreOf(artistLookup)
  /\ files = <<>>
  /\ clusters = <<>>
  /\ pc = "makeKey"
  /\ \E name \in {<<>>} \cup SeqsUpTo(NameChars, MaxName) :
       locals = [name |-> name, variant |-> name, edits |-> 0]
  /\ history = [key |-> makeKey(locals.name), variantKey |-> makeKey(locals.name)]

NextKey == ChangeCase \/ AddMark \/ RemoveMark \/ InsertPunctuation \/ DeletePunctuation

\* makeKey on a name and on the variants of its spelling
SpecKey == InitKey /\ [][NextKey]_vars

(***************************************************************************)
(* Properties of upsertArtist                                              *)
(***************************************************************************)
\* the record the last call built, under the given key
Upserted(key) ==
  ArtistLookup(key, history.name, history.sortOrderName, history.sortOrderNameWithDates,
               history.primaryRole, history.epoque)

\* the last-name and initials keys of the last call, where the name has them
SecondaryKeys ==
  (IF getLastNameRaises(history.name) THEN {} ELSE {makeKey(getLastName(history.name))})
    \cup (IF getInitialsNameRaises(history.name) THEN {}
          ELSE {makeKey(getInitialsName(history.name))})

\* the entry under the key is as it was before the last call
Untouched(key) ==
  /\ key \in DOMAIN history.prev <=> key \in DOMAIN artistLookup.table
  /\ key \in DOMAIN history.prev => artistLookup.table[key] = history.prev[key]

\* C10: upsertArtist stores the new record under makeKey(name) whatever was
\* there and changes at most three entries: makeKey(name), the last-name key
\* and the initials key; for role Orchestra only makeKey(name). A secondary
\* entry held by a record whose name is not similar to name is left as it was,
\* and every other entry is unchanged.
C10_UpsertFrame ==
  locals.calls > 0
    => /\ makeKey(history.name) \in DOMAIN artistLookup.table
       /\ artistLookup.table[makeKey(history.name)] = Upserted(makeKey(history.name))
       /\ \A key \in (DOMAIN history.prev \cup DOMAIN artistLookup.table) :
            /\ key \notin ({makeKey(history.name)} \cup SecondaryKeys) => Untouched(key)
            /\ (history.primaryRole = "Orchestra" /\ key # makeKey(history.name))
                 => Untouched(key)
            /\ (/\ key # makeKey(history.name)
                /\ key \in DOMAIN history.prev
                /\ ~AreSimilar(history.prev[key].name, history.name)) => Untouched(key)
            /\ ~Untouched(key) => artistLookup.table[key] = Upserted(key)
       /\ Cardinality({key \in DOMAIN artistLookup.table : ~Untouched(key)}) <= 3

\* C10 happens: "Al Bo" was added as a conductor to a table whose key "bo" was
\* held by another name; the keys "albo" and "abo" were written, "bo" was kept
C10_Witness ==
  /\ locals.calls = 2
  /\ history.name = <<"A","l"," ","B","o">>
  /\ history.primaryRole = "Conductor"
  /\ <<"b","o">> \in DOMAIN history.prev
  /\ artistLookup.table[<<"b","o">>].name # history.name
  /\ <<"a","l","b","o">> \notin DOMAIN history.prev
  /\ artistLookup.table[<<"a","l","b","o">>].name = history.name
  /\ artistLookup.table[<<"a","b","o">>].name = history.name

\* the last call of upsertArtist, made once more on the table it left
UpsertedAgain ==
  upsertArtist(artistLookup.table, history.name, history.sortOrderName,
               history.sortOrderNameWithDates, history.primaryRole, history.epoque)

\* C11: upsertArtist applied twice in a row with identical arguments leaves
\* the table as applying it once does, and upserting a name again with other
\* sort, role and epoque values leaves the record under makeKey(name) carrying
\* the latest values.
C11_UpsertIdempotent ==
  locals.calls > 0
    => /\ UpsertedAgain.dict = artistLookup.table
       /\ UpsertedAgain.raised = history.raised
       /\ (locals.calls = 2 /\ history.earlier.name = history.name
             /\ history.earlier.primaryRole = history.primaryRole)
            => artistLookup.table = history.prev
       /\ history.earlier.name = history.name
            => artistLookup.table[makeKey(history.name)] = Upserted(makeKey(history.name))

\* C11 happens: "Al Bo", in the table as a composer, was upserted again as a
\* conductor, and the three keys carry the conductor
C11_Witness ==
  /\ locals.calls = 2
  /\ history.name = <<"A","l"," ","B","o">>
  /\ history.earlier.name = history.name
  /\ history.earlier.primaryRole = "Composer"
  /\ history.primaryRole = "Conductor"
  /\ history.prev[<<"a","l","b","o">>].primaryrole = "Composer"
  /\ artistLookup.table[<<"a","l","b","o">>].primaryrole = "Conductor"
  /\ artistLookup.table[<<"b","o">>].primaryrole = "Conductor"
  /\ artistLookup.table # history.prev

(***************************************************************************)
(* Properties of the menu actions                                          *)
(***************************************************************************)
\* C12: when ComposerFileAction, ConductorFileAction or OrchestraFileAction has
\* ended, artists.csv and the table in memory hold the same records.
C12_LoadMutateSave ==
  locals.actions > 0 => readArtists(store).table = artistLookup.table

(***************************************************************************)
(* Properties of RenumberFiles                                             *)
(***************************************************************************)
\* the (album, albumartist) pair of a track
Pair(md) == << mdGet(md, "album"), mdGet(md, "albumartist") >>

\* the tracks of each pair follow one another
Contiguous(tracks) ==
  \A i, j, k \in DOMAIN tracks :
    (i < j /\ j < k /\ Pair(tracks[i]) = Pair(tracks[k])) => Pair(tracks[j]) = Pair(tracks[i])

\* the place of the i-th track among the tracks of its pair
Place(tracks, i) == Cardinality({j \in 1..i : Pair(tracks[j]) = Pair(tracks[i])})

\* C17: RenumberFiles on a sequence whose pairs are contiguous numbers the
\* tracks of each pair 1, 2, ... in sequence order, sets discnumber 1 on every
\* track, writes the old discnumber to origdiscnumber exactly when it is not
\* '1', and the old tracknumber to origtracknumber exactly when it differs from
\* the new number.
C17_Renumbered ==
  (pc = "returned" /\ Contiguous(history.tracks))
    => \A i \in DOMAIN files :
         /\ files[i]["tracknumber"] = << IntToStr(Place(history.tracks, i)) >>
         /\ files[i]["discnumber"] = << <<"1">> >>
         /\ IF mdGet(history.tracks[i], "discnumber") # <<"1">>
            THEN mdGet(files[i], "origdiscnumber") = mdGet(history.tracks[i], "discnumber")
            ELSE files[i]["origdiscnumber"] = history.tracks[i]["origdiscnumber"]
         /\ IF mdGet(history.tracks[i], "tracknumber") # IntToStr(Place(history.tracks, i))
            THEN mdGet(files[i], "origtracknumber") = mdGet(history.tracks[i], "tracknumber")
            ELSE files[i]["origtracknumber"] = history.tracks[i]["origtracknumber"]

\* C17 happens: three tracks of two pairs were renumbered 1, 2, 1; the second
\* came from disc 2 as track 1 and kept both old numbers, the third kept nothing
C17_Witness ==
  /\ pc = "returned"
  /\ Len(files) = 3
  /\ Contiguous(history.tracks)
  /\ Pair(history.tracks[1]) = Pair(history.tracks[2])
  /\ Pair(history.tracks[2]) # Pair(history.tracks[3])
  /\ files[2]["tracknumber"] = << <<"2">> >>
  /\ files[2]["origdiscnumber"] = << <<"2">> >>
  /\ files[2]["origtracknumber"] = << <<"1">> >>
  /\ files[3]["tracknumber"] = << <<"1">> >>
  /\ ~mdHas(files[3], "origtracknumber")
  /\ ~mdHas(files[3], "origdiscnumber")

\* the positions of the tracks that share the pair of the i-th track
SamePair(tracks, i) == {j \in DOMAIN tracks : Pair(tracks[j]) = Pair(tracks[i])}

\* C21: when NumberTracksInAlbumFileAction or NumberTracksInAlbumClusterAction
\* has completed, the tracknumbers of the k tracks of every (album,
\* albumartist) pair are exactly 1..k, no number given twice.
C21_UniquePerAlbum ==
  pc = "returned"
    => \A i \in DOMAIN files :
         /\ \E n \in 1..Cardinality(SamePair(history.tracks, i)) :
              mdGet(files[i], "tracknumber") = IntToStr(n)
         /\ \A j \in SamePair(history.tracks, i) :
              j # i => files[j]["tracknumber"] # files[i]["tracknumber"]

\* C25: a renumber action run a second time on the same selection, directly
\* after a first run, leaves every field of every file as the first run left
\* it, origdiscnumber and origtracknumber included.
C25_RenumberIdempotent ==
  (pc = "returned" /\ history.runs = 2) => Selected(files) = history.first

(***************************************************************************)
(* Properties of makeKey                                                   *)
(***************************************************************************)
\* C18: changing the case of letters, adding or removing combining marks and
\* inserting or deleting - ' . , / and spaces does not change the key of a
\* name, and the key of the empty name is empty.
C18_VariantsShareKey ==
  /\ history.variantKey = history.key
  /\ locals.name = <<>> => history.key = <<>>

\* the last-name and initials keys of a name, where the name has them
SecondaryKeysOf(name) ==
  (IF getLastNameRaises(name) THEN {} ELSE {makeKey(getLastName(name))})
    \cup (IF getInitialsNameRaises(name) THEN {} ELSE {makeKey(getInitialsName(name))})

\* before the last call the key held a record as its last-name or initials key
HeldAsSecondary(key) ==
  /\ key \in DOMAIN history.prev
  /\ key \in SecondaryKeysOf(history.prev[key].name)

\* C19: a record held under its last-name key or initials key is left as it is
\* by an upsert of an artist whose name is not similar to the record's name.
C19_SecondaryKeyProtected ==
  locals.calls > 0
    => \A key \in DOMAIN history.prev :
         (HeldAsSecondary(key) /\ ~AreSimilar(history.prev[key].name, history.name))
           => Untouched(key)

(***************************************************************************)
(* Properties of CombineDiscs                                              *)
(***************************************************************************)
AlbumOf(cluster) == mdGet(cluster.metadata, "album")

\* every cluster's album matches the disc pattern
AllMatch(objs) == \A i \in DOMAIN objs : DiscMatch(AlbumOf(objs[i])) # NoMatch

\* the trimmed prefixes of the albums are all equal
SamePrefixes(objs) ==
  \A i, j \in DOMAIN objs : DiscPrefix(AlbumOf(objs[i])) = DiscPrefix(AlbumOf(objs[j]))

\* the callback ran to its end: the cluster-level data was set
Combined == pc = "returned" /\ history.log = "Setting cluster-level data"

\* the callback ended without getting there
Failed == pc = "returned" /\ history.log # "Setting cluster-level data"

\* C2: if some selected cluster's album does not match the disc pattern, or
\* the trimmed prefixes of the albums are not all equal, no field of any file
\* or cluster is ever changed.
C2_ValidationFailFast ==
  (~AllMatch(history.before) \/ ~SamePrefixes(history.before)) => clusters = history.before

\* C3: whenever CombineDiscs ends in failure (pattern mismatch, album-name
\* disagreement, or a disc number that cannot be read), no file has been
\* modified.
C3_FailedMergeClean ==
  Failed => \A i \in DOMAIN clusters : clusters[i].files = history.before[i].files

\* the selection is the discs 1..N of the set "R", one cluster per disc, in any order
WellFormed(objs) ==
  /\ \A i \in DOMAIN objs : \E k \in 1..Len(objs) : AlbumOf(objs[i]) = DiscAlbum(<<"R"," ">>, k)
  /\ \A i, j \in DOMAIN objs : i # j => AlbumOf(objs[i]) # AlbumOf(objs[j])

\* the k of a cluster of a well-formed selection
DiscOf(cluster) == CHOOSE k \in 1..MaxClusters : AlbumOf(cluster) = DiscAlbum(<<"R"," ">>, k)

\* C4: on N clusters whose albums are "R Disc k", the k being exactly 1..N,
\* selected in any order, CombineDiscs runs to its end and sets on every file
\* album = "R", discnumber = the k of its own cluster's album, totaldiscs = N.
C4_WellFormedMerge ==
  (pc = "returned" /\ WellFormed(history.before))
    => /\ Combined
       /\ \A i \in DOMAIN clusters : \A j \in DOMAIN clusters[i].files :
            /\ mdGet(clusters[i].files[j], "album") = <<"R">>
            /\ mdGet(clusters[i].files[j], "discnumber") = IntToStr(DiscOf(history.before[i]))
            /\ mdGet(clusters[i].files[j], "totaldiscs") = IntToStr(Len(clusters))

\* C4 happens: three discs selected as 2, 3, 1 were combined, the two files of
\* disc 1 among them
C4_Witness ==
  /\ Combined
  /\ WellFormed(history.before)
  /\ Len(clusters) = 3
  /\ DiscOf(history.before[1]) = 2
  /\ DiscOf(history.before[3]) = 1
  /\ Len(clusters[3].files) = 2
  /\ mdGet(clusters[3].files[2], "discnumber") = <<"1">>
  /\ mdGet(clusters[1].files[1], "album") # mdGet(history.before[1].files[1], "album")

\* C5: after CombineDiscs passed validation and ran to its end, every file of
\* every selected cluster has album = the album name, albumartist = album
\* artist = the album artist, a discnumber in 1..N and totaldiscs = N.
C5_MergeTotal ==
  Combined
    => \A i \in DOMAIN clusters : \A j \in DOMAIN clusters[i].files :
         /\ mdGet(clusters[i].files[j], "album") = locals.albumName
         /\ mdGet(clusters[i].files[j], "albumartist") = locals.albumArtist
         /\ mdGet(clusters[i].files[j], "album artist") = locals.albumArtist
         /\ mdGet(clusters[i].files[j], "discnumber") \in {IntToStr(k) : k \in 1..Len(clusters)}
         /\ mdGet(clusters[i].files[j], "totaldiscs") = IntToStr(Len(clusters))

\* the number the album of the i-th selected cluster ends with, 0 if int()
\* cannot read one
AlbumNumber(i) ==
  IF IntRaises(DiscNumberText(AlbumOf(history.before[i]))) THEN 0
  ELSE StrToInt(DiscNumberText(AlbumOf(history.before[i])))

\* the selected clusters whose album ends with the number k
Numbered(k) == {i \in DOMAIN history.before : AlbumNumber(i) = k}

\* every file of the i-th cluster carries the disc number k
OnDisc(i, k) ==
  \A j \in DOMAIN clusters[i].files : mdGet(clusters[i].files[j], "discnumber") = IntToStr(k)

\* the ordinals resolved so far went to a cluster whose album carries the
\* number, wherever there is one
ByAlbumFirst ==
  \A k \in DOMAIN history.resolved :
    Numbered(k) # {} => history.resolved[k] \in Numbered(k)

\* C20: each ordinal k of 1..N goes to a cluster whose album number is k if
\* there is one, whatever disc numbers the files of the other clusters carry,
\* and to a cluster found by the disc number of its files only if there is
\* none; a cluster whose album number t is in 1..N and unique among the
\* clusters ends the merge with disc number t.
C20_ResolutionOrder ==
  pc \in {"combining", "returned"}
    => /\ ByAlbumFirst
       /\ pc = "returned" /\ history.log \notin {"not a cluster", "not a multi-disc set", "Album name mismatch"}
            => \A i \in DOMAIN clusters :
                 (AlbumNumber(i) \in 1..Len(clusters) /\ Numbered(AlbumNumber(i)) = {i})
                   => OnDisc(i, AlbumNumber(i))

\* the tag of the j-th file of the i-th cluster was set before the merge and
\* is set now
Kept(i, j, tag) ==
  mdGet(history.before[i].files[j], tag) # <<>> => mdGet(clusters[i].files[j], tag) # <<>>

\* C23: a file whose albumartist or date was not empty before CombineDiscs
\* does not end the merge with that tag empty, also when no cluster was found
\* for disc 1, the cluster of disc 1 has no album artist, or its first file
\* has no date.
C23_AlbumDataKept ==
  pc = "returned"
    => \A i \in DOMAIN clusters : \A j \in DOMAIN clusters[i].files :
         Kept(i, j, "albumartist") /\ Kept(i, j, "date")

\* C24: no cluster is matched for two ordinals: a cluster whose files were
\* rewritten for ordinal k is not matched and rewritten again for a later one.
C24_OneOrdinalPerCluster ==
  \A k, l \in DOMAIN history.resolved :
    (k < l /\ history.resolved[k] # 0) => history.resolved[k] # history.resolved[l]

(***************************************************************************)
(* Properties of ProcessListOfFiles                                        *)
(***************************************************************************)
\* the tag reads the same on every record
Uniform(objs, tag) == \A i, j \in DOMAIN objs : mdGet(objs[i], tag) = mdGet(objs[j], tag)

\* the tag reads the same on the record as on the record it is compared with
SameField(md, other, tag) == mdGet(md, tag) = mdGet(other, tag)

\* C1: if album is identical across all records before reconciliation and is
\* not identical after fixFile has run on every record, then on return every
\* record's album is its value from before; so a batch that enters with a
\* uniform album leaves with a uniform album.
C1_AlbumGuard ==
  (pc = "returned" /\ Uniform(history.before, "album"))
    => /\ ~Uniform(history.fixedFiles, "album")
            => \A i \in DOMAIN files : SameField(files[i], history.before[i], "album")
       /\ Uniform(files, "album")

\* C6: an exception raised while one record is reconciled is caught inside
\* fixFile; fixFile is still invoked on every remaining record, one outcome
\* per record in order, and the batch returns normally.
C6_FailureIsolation ==
  /\ pc \in {"ProcessListOfFiles", "fixing", "returned"}
  /\ pc = "fixing" => /\ Len(history.outcome) = locals.track - 1
                      /\ Len(history.outcome) <= Len(files)
  /\ pc = "returned" => /\ Len(history.outcome) = Len(files)
                        /\ \A i \in DOMAIN files : history.outcome[i] \in {"fixed", "raised"}

\* C6 happens: the first record raised, the second was still fixed, the batch returned
C6_Witness ==
  /\ pc = "returned"
  /\ Len(history.outcome) = 2
  /\ history.outcome[1] = "raised"
  /\ history.outcome[2] = "fixed"
  /\ mdHas(files[2], "classicalfixesdate")
  /\ files[1] = history.before[1]

\* C7: with no lookup table loaded, a record that has artist or album-artist
\* entries is still reconciled: the steps that need no lookup are applied, the
\* last of them the timestamp.
C7_DegradedMode ==
  (pc = "returned" /\ ~artistLookup.loaded)
    => \A i \in DOMAIN files :
         (mdHas(history.before[i], "artist") \/ mdHas(history.before[i], "albumartist"))
           => /\ history.outcome[i] = "fixed"
              /\ mdHas(files[i], "classicalfixesdate")

\* C8: when ProcessListOfFiles returns, every record, whether its
\* reconciliation completed, failed part-way or was followed by a rollback,
\* has album artist equal to albumartist.
C8_AlbumArtistSynced ==
  pc = "returned" => \A i \in DOMAIN files : mdGet(files[i], "album artist") = mdGet(files[i], "albumartist")

\* the guard changed the tag on some record
GuardChanged(tag) == \E i \in DOMAIN files : ~SameField(files[i], history.fixedFiles[i], tag)

\* the tag reads on every record as it did before reconciliation
Reverted(tag) == \A i \in DOMAIN files : SameField(files[i], history.before[i], tag)

\* C9: the guard reverts albumartist (with album artist) exactly when it was
\* identical across all records before and is not identical after, whatever
\* happens to album; a field that was not identical before is never changed by
\* the guard; and the guard changes no field but album, albumartist and
\* album artist.
C9_GuardPerField ==
  pc = "returned"
    => /\ (Uniform(history.before, "albumartist") /\ ~Uniform(history.fixedFiles, "albumartist"))
            => /\ Reverted("albumartist")
               /\ \A i \in DOMAIN files :
                    mdGet(files[i], "album artist") = mdGet(history.before[i], "albumartist")
       /\ GuardChanged("albumartist")
            => (Uniform(history.before, "albumartist") /\ ~Uniform(history.fixedFiles, "albumartist"))
       /\ ~Uniform(history.before, "albumartist") => ~GuardChanged("albumartist")
       /\ ~Uniform(history.before, "album") => ~GuardChanged("album")
       /\ \A tag \in Tags \ {"album", "albumartist", "album artist"} : ~GuardChanged(tag)


\* line 312: the names of md's artist list
Artists(md) == expandList(mdGet(md, "artist"), ";")

\* the entries of md's artist list whose key the lookup table holds under the role
Known(md, primaryRole) ==
  {i \in DOMAIN Artists(md) :
     /\ makeKey(Artists(md)[i]) \in DOMAIN artistLookup.table
     /\ artistLookup.table[makeKey(Artists(md)[i])].primaryrole = primaryRole}

\* the name of the record the lookup table holds for the i-th artist of md
NameOf(md, i) == artistLookup.table[makeKey(Artists(md)[i])].name

\* the artist list names a known conductor and a known orchestra, and conductor,
\* orchestra, composer and albumartist are not set
NamesBoth(md) ==
  /\ Known(md, "Conductor") # {} /\ Known(md, "Orchestra") # {}
  /\ \A tag \in {"conductor", "orchestra", "composer", "albumartist"} : ~mdHas(md, tag)

StartsWith(s, prefix) == Len(s) >= Len(prefix) /\ SubSeq(s, 1, Len(prefix)) = prefix

\* C13: a record whose artist list names a conductor and an orchestra of the
\* lookup table, with conductor, orchestra, composer and albumartist unset, ends
\* with conductor and orchestra set to the names of those records and with
\* albumartist beginning with the conductor followed by the orchestra.
C13_RoleInference ==
  (pc = "returned" /\ artistLookup.loaded)
    => \A i \in DOMAIN files :
         (history.outcome[i] = "fixed" /\ NamesBoth(history.before[i]))
           => \E c \in Known(history.before[i], "Conductor"),
                 o \in Known(history.before[i], "Orchestra") :
                /\ history.fixedFiles[i]["conductor"] = << NameOf(history.before[i], c) >>
                /\ history.fixedFiles[i]["orchestra"] = << NameOf(history.before[i], o) >>
                /\ StartsWith(mdGet(history.fixedFiles[i], "albumartist"),
                              NameOf(history.before[i], c) \o <<";", " ">>
                                \o NameOf(history.before[i], o))

\* line 537: the names of md's albumartist
AlbumArtists(md) == expandList(mdGet(md, "albumartist"), ";")

\* the names of md's artist list and albumartist that are similar to its composer
LikeComposer(md) ==
  {name \in {Artists(md)[i] : i \in DOMAIN Artists(md)}
             \cup {AlbumArtists(md)[i] : i \in DOMAIN AlbumArtists(md)} :
     AreSimilar(lower(name), lower(mdGet(md, "composer")))}

\* C14: a record reconciled with a composer set ends with no entry of its artist
\* list and no entry of its albumartist similar to the composer's name.
C14_ComposerRemoved ==
  pc = "returned"
    => \A i \in DOMAIN files :
         (history.outcome[i] = "fixed" /\ mdHas(history.fixedFiles[i], "composer"))
           => LikeComposer(history.fixedFiles[i]) = {}

\* s holds sub as a substring
Contains(s, sub) ==
  \E p \in 1..(Len(s) - Len(sub) + 1) : SubSeq(s, p, p + Len(sub) - 1) = sub

\* the last name of a name: the first word of reverseName(name), without the
\* comma that follows it
Surname(name) == stripChars(getLastName(name), {","})

\* md's album holds the last name of md's tag in brackets, in any case
Bracketed(md, tag) ==
  /\ mdHas(md, tag)
  /\ Contains(lower(mdGet(md, "album")),
              <<"[">> \o lower(Surname(mdGet(md, tag))) \o <<"]">>)

\* C15: a record reconciled with a conductor (or composer) set ends with an
\* album that does not hold, in brackets and in any case, the last name of the
\* conductor (or composer).
C15_BracketCleanup ==
  pc = "returned"
    => \A i \in DOMAIN files :
         history.outcome[i] = "fixed"
           => /\ ~Bracketed(history.fixedFiles[i], "conductor")
              /\ ~Bracketed(history.fixedFiles[i], "composer")

Classical == <<"C","l","a","s","s","i","c","a","l">>

\* the genre is, in any case, a member of the sub-genre vocabulary
SubGenre(genre) == \E member \in SUB_GENRES : lower(genre) = lower(member)

\* C16: a record reconciled without a genre ends with genre 'Classical'; one
\* whose genre is not 'Classical' and is, in any case, a sub-genre ends with
\* that genre in origgenre and genre 'Classical'; every other record keeps its
\* genre and its origgenre.
C16_GenreTaxonomy ==
  pc = "returned"
    => \A i \in DOMAIN files :
         history.outcome[i] = "fixed"
           => IF ~mdHas(history.before[i], "genre")
              THEN history.fixedFiles[i]["genre"] = << Classical >>
              ELSE IF mdGet(history.before[i], "genre") # Classical
                      /\ SubGenre(mdGet(history.before[i], "genre"))
              THEN /\ history.fixedFiles[i]["origgenre"] = << mdGet(history.before[i], "genre") >>
                   /\ history.fixedFiles[i]["genre"] = << Classical >>
              ELSE /\ history.fixedFiles[i]["genre"] = history.before[i]["genre"]
                   /\ history.fixedFiles[i]["origgenre"] = history.before[i]["origgenre"]

\* C16 happens: a batch of an 'Opera' record and a 'Rock' record was reconciled,
\* the first moved to 'Classical' with origgenre 'Opera', the second kept
C16_Witness ==
  /\ pc = "returned"
  /\ Len(files) = 2
  /\ history.outcome = << "fixed", "fixed" >>
  /\ history.before[1]["genre"] = << <<"O","p","e","r","a">> >>
  /\ history.fixedFiles[1]["genre"] = << Classical >>
  /\ history.fixedFiles[1]["origgenre"] = << <<"O","p","e","r","a">> >>
  /\ history.before[2]["genre"] = << <<"R","o","c","k">> >>
  /\ history.fixedFiles[2]["genre"] = << <<"R","o","c","k">> >>
  /\ ~mdHas(history.fixedFiles[2], "origgenre")

\* the entries of names that are similar, in lower case, to the value of md's tag
Like(names, md, tag) ==
  {i \in DOMAIN names : mdHas(md, tag) /\ AreSimilar(lower(names[i]), lower(mdGet(md, tag)))}

\* the head of the rebuilt albumartist: the conductor, then the orchestra if an
\* entry other than the conductor's matched it
Leaders(names, md) ==
  << mdGet(md, "conductor") >>
    \o (IF Like(names, md, "orchestra") \ Like(names, md, "conductor") # {}
        THEN << mdGet(md, "orchestra") >> ELSE <<>>)

\* the entries of names that matched neither conductor nor orchestra, in order
Others(names, md) ==
  FilterSeq(LAMBDA name : /\ ~(mdHas(md, "conductor") /\ AreSimilar(lower(name), lower(mdGet(md, "conductor"))))
                          /\ ~(mdHas(md, "orchestra") /\ AreSimilar(lower(name), lower(mdGet(md, "orchestra")))),
            names)

\* C22: a record reconciled with a conductor set, whose incoming albumartist
\* holds an entry similar to the conductor, ends with an albumartist that
\* begins with the conductor, followed by the orchestra if an entry matched it,
\* followed by the entries that matched neither, in their incoming order.
C22_AlbumArtistOrder ==
  pc = "returned"
    => \A i \in DOMAIN files :
         (/\ history.outcome[i] = "fixed"
          /\ mdHas(history.fixedFiles[i], "conductor")
          /\ Like(AlbumArtists(history.before[i]), history.fixedFiles[i], "conductor") # {})
           => /\ StartsWith(AlbumArtists(history.fixedFiles[i]),
                            Leaders(AlbumArtists(history.before[i]), history.fixedFiles[i]))
              /\ Others(AlbumArtists(history.fixedFiles[i]), history.fixedFiles[i])
                   = Others(AlbumArtists(history.before[i]), history.fixedFiles[i])

\* C26: a record whose artist list (albumartist list) is not empty before
\* fixFile has a non-empty artist list (albumartist list) after it.
C26_CreditsNeverEmptied ==
  pc = "returned"
    => \A i \in DOMAIN files :
         history.outcome[i] = "fixed"
           => /\ mdHas(history.before[i], "artist") => mdHas(history.fixedFiles[i], "artist")
              /\ mdHas(history.before[i], "albumartist")
                   => mdHas(history.fixedFiles[i], "albumartist")

=============================================================================
